---- MODULE Spec2Model ----
(***************************************************************************)
(* A model of the zerone / jahmm inference core: the emission evaluators   *)
(* (zinm_prob, mnmultinom_prob), the forward-backward smoother (fwd, bwd,  *)
(* fwdb, block_fwdb), the Viterbi decoder (viterbi) and the Baum-Welch     *)
(* trainer (bw_zinm, update_trans, eval_bw_f, eval_bw_dfdp0).              *)
(*                                                                         *)
(* NUMBERS.  A C double is modelled exactly, as one of                     *)
(*    <<0, n, d>>  d > 0   the rational n/d in lowest terms,               *)
(*    <<0, 1, 0>>, <<0, -1, 0>>   +infinity and -infinity,                 *)
(*    <<0, 0, 0>>          NaN,                                            *)
(*    <<1, n, d>>          the real number ln(n/d), n/d > 0 and n/d # 1.   *)
(* The sums, products and quotients the code takes of such numbers are     *)
(* again such numbers; an operation whose result is not (ln(2) + 1, say)   *)
(* is an evaluation error, so a run that ends without error never left     *)
(* the domain.  Rounding is not modelled.  The range of a double is, on a  *)
(* reduced scale: a rational above 2^DblMaxExp in magnitude is an          *)
(* infinity, one below 2^-DblMinExp is 0, and exp(ln(u)) underflows to 0   *)
(* when u < 1/ExpUnderflow (the code relies on exp() underflowing: that is *)
(* when zinm_prob leaves a row in log space).                              *)
(*                                                                         *)
(* ARRAYS.  A C array is a function on 0..len-1, indexed as in the code    *)
(* (Q[i+j*m], prob[j+k*m]).                                                *)
(***************************************************************************)
EXTENDS Integers, Sequences, FiniteSets, TLC

\* exp(x) underflows to 0 below ln(1/ExpUnderflow).
ExpUnderflow == 16
\* A double overflows above 2^DblMaxExp and underflows below 2^-DblMinExp.
DblMaxExp == 8
DblMinExp == 12

(***************************************************************************)
(* Arithmetic of doubles.                                                  *)
(***************************************************************************)
\* A value outside the modelled numbers: evaluating it is an error.
Unrep == CHOOSE x \in {} : TRUE

Abs(n) == IF n < 0 THEN -n ELSE n
Sgn(n) == IF n < 0 THEN -1 ELSE IF n > 0 THEN 1 ELSE 0

RECURSIVE GCD(_, _)
GCD(u, v) == IF v = 0 THEN u ELSE GCD(v, u % v)

RECURSIVE IPow(_, _)
IPow(b, e) == IF e = 0 THEN 1 ELSE b * IPow(b, e - 1)

NAN  == <<0, 0, 0>>
PINF == <<0, 1, 0>>
NINF == <<0, -1, 0>>

\* The largest double and the inverse of the smallest positive one.
DblMax == IPow(2, DblMaxExp)
DblMinInv == IPow(2, DblMinExp)

\* The double s * nn/dd, for s the sign and nn, dd > 0 in lowest terms.
RatRange(s, nn, dd) ==
   IF dd <= (nn - 1) \div DblMax THEN <<0, s, 0>>
   ELSE IF nn <= (dd - 1) \div DblMinInv THEN <<0, 0, 1>>
   ELSE <<0, s * nn, dd>>

\* The double nearest the rational n/d (d may be 0: an infinity, or NaN).
Rat(n, d) ==
   IF d = 0 THEN <<0, Sgn(n), 0>>
   ELSE IF n = 0 THEN <<0, 0, 1>>
   ELSE CHOOSE x \in { RatRange(Sgn(n) * Sgn(d), Abs(n) \div g,
                                Abs(d) \div g) :
                          g \in {GCD(Abs(n), Abs(d))} } : TRUE

\* The number ln(n/d) for n, d > 0.
Ln(n, d) ==
   LET g == GCD(n, d)
   IN  IF n = d THEN <<0, 0, 1>> ELSE <<1, n \div g, d \div g>>

Zero == <<0, 0, 1>>
One  == <<0, 1, 1>>
Int2D(k) == <<0, k, 1>>

IsNaN(x) == x = NAN
IsLn(x)  == x[1] = 1
IsInf(x) == x[1] = 0 /\ x[3] = 0 /\ x[2] # 0
IsFin(x) == x[1] = 0 /\ x[3] # 0
IsInt(x) == x[1] = 0 /\ x[3] = 1

\* The sign of a number that is not NaN.
Sign(x) == IF IsLn(x) THEN (IF x[2] < x[3] THEN -1 ELSE 1) ELSE Sgn(x[2])

fneg(x) == IF IsLn(x) THEN <<1, x[3], x[2]>> ELSE <<0, -x[2], x[3]>>

fadd(x, y) ==
   IF IsNaN(x) \/ IsNaN(y) THEN NAN
   ELSE IF IsInf(x) THEN (IF IsInf(y) /\ y # x THEN NAN ELSE x)
   ELSE IF IsInf(y) THEN y
   ELSE IF IsLn(x) /\ IsLn(y)
        THEN LET g1 == GCD(x[2], y[3])
                 g2 == GCD(y[2], x[3])
             IN  Ln((x[2] \div g1) * (y[2] \div g2),
                    (x[3] \div g2) * (y[3] \div g1))
   ELSE IF IsLn(x) THEN (IF y = Zero THEN x ELSE Unrep)
   ELSE IF IsLn(y) THEN (IF x = Zero THEN y ELSE Unrep)
   ELSE LET g == GCD(x[3], y[3])
        IN  Rat(x[2] * (y[3] \div g) + y[2] * (x[3] \div g),
                (x[3] \div g) * y[3])

fsub(x, y) == fadd(x, fneg(y))

\* k * ln(u) = ln(u^k) for an integer k.
LnTimes(k, x) ==
   IF k = 0 THEN Zero
   ELSE IF k > 0 THEN Ln(IPow(x[2], k), IPow(x[3], k))
   ELSE Ln(IPow(x[3], -k), IPow(x[2], -k))

fmul(x, y) ==
   IF IsNaN(x) \/ IsNaN(y) THEN NAN
   ELSE IF IsInf(x) \/ IsInf(y)
        THEN (IF Sign(x) = 0 \/ Sign(y) = 0 THEN NAN
              ELSE <<0, Sign(x) * Sign(y), 0>>)
   ELSE IF IsLn(x) /\ IsLn(y) THEN Unrep
   ELSE IF IsLn(x) THEN (IF IsInt(y) THEN LnTimes(y[2], x) ELSE Unrep)
   ELSE IF IsLn(y) THEN (IF IsInt(x) THEN LnTimes(x[2], y) ELSE Unrep)
   ELSE LET g1 == GCD(Abs(x[2]), y[3])
            g2 == GCD(Abs(y[2]), x[3])
        IN  Rat((x[2] \div g1) * (y[2] \div g2),
                (x[3] \div g2) * (y[3] \div g1))

fdiv(x, y) ==
   IF IsNaN(x) \/ IsNaN(y) THEN NAN
   ELSE IF IsLn(x) \/ IsLn(y) THEN Unrep
   ELSE IF IsInf(y) THEN (IF IsInf(x) THEN NAN ELSE Zero)
   ELSE IF IsInf(x) THEN <<0, x[2] * (IF y[2] < 0 THEN -1 ELSE 1), 0>>
   ELSE IF y[2] = 0 THEN Rat(x[2], 0)
   ELSE LET g1 == GCD(Abs(x[2]), Abs(y[2]))
            g2 == GCD(x[3], y[3])
        IN  Rat((x[2] \div g1) * (y[3] \div g2),
                (x[3] \div g2) * (y[2] \div g1))

\* x < y as C evaluates it: false when either side is NaN.
flt(x, y) ==
   IF IsNaN(x) \/ IsNaN(y) THEN FALSE
   ELSE IF x = y THEN FALSE
   ELSE IF IsInf(x) THEN x = NINF
   ELSE IF IsInf(y) THEN y = PINF
   ELSE IF IsLn(x) = IsLn(y) THEN x[2] * y[3] < y[2] * x[3]
   ELSE IF Sign(x) # Sign(y) THEN Sign(x) < Sign(y)
   ELSE Unrep

fgt(x, y) == flt(y, x)

\* x >= y as C evaluates it.
fge(x, y) == ~ IsNaN(x) /\ ~ IsNaN(y) /\ ~ flt(x, y)

\* log(x) of a rational x.
flog(x) ==
   IF IsNaN(x) THEN NAN
   ELSE IF IsLn(x) THEN Unrep
   ELSE IF x = PINF THEN PINF
   ELSE IF x[2] < 0 THEN NAN
   ELSE IF x[2] = 0 THEN NINF
   ELSE Ln(x[2], x[3])

\* exp(x) of a logarithm x; 0 below the underflow limit.
fexp(x) ==
   IF IsNaN(x) THEN NAN
   ELSE IF x = Zero THEN One
   ELSE IF x = NINF THEN Zero
   ELSE IF x = PINF THEN PINF
   ELSE IF IsLn(x) THEN (IF x[2] * ExpUnderflow < x[3] THEN Zero
                         ELSE Rat(x[2], x[3]))
   ELSE Unrep

\* The sum f[lo] + f[lo+1] + ... + f[hi] of doubles, left to right from acc.
RECURSIVE fsum(_, _, _, _)
fsum(f, lo, hi, acc) ==
   IF lo > hi THEN acc ELSE fsum(f, lo + 1, hi, fadd(acc, f[lo]))

(***************************************************************************)
(* State.                                                                  *)
(***************************************************************************)
VARIABLES
   \* struct jahmm_t and struct ChIP_t: the model and the observations.
   m, r, nb, size, y, Q, a, pi, p, l, jpem, jphi,
   \* An emission evaluator call (zinm_prob or mnmultinom_prob): its
   \* arguments, its locals and its position.
   e_fn, otype, output_type, e_t, e_q, index, pem, logp, logq, e_k, e_pc,
   \* block_fwdb() and the fwdb(), fwd() and bwd() it runs: arguments, locals
   \* and position ('prob' is pem, as bw_zinm passes it).
   init, phi, sumtrans, T, loglik, offset, f_i, f_k, f_a, f_tmp, f_loglik,
   f_pc,
   \* bw_zinm(): its locals and its position; Q_iter and p_iter are Q and p
   \* as they were when the current iteration began.
   b_R, i0, newp, iter, b_i, b_pc, Q_iter, p_iter,
   \* viterbi(): its arguments, its locals and its position.
   v_m, v_n, log_Q, log_i, log_p, oldmax, newmax, argmax, path, v_k, v_pc,
   \* block_viterbi(): 'arglog', the block it is at, 'offset' and the value
   \* it returns ('Q', 'init' and 'prob' are Q, init and pem).
   arglog, v_i, v_offset, v_ret

dataVars == <<m, r, nb, size, y, Q, a, pi, p, l, jpem, jphi>>
emVars == <<e_fn, otype, output_type, e_t, e_q, index, pem, logp, logq, e_k,
            e_pc>>
fbVars == <<init, phi, sumtrans, T, loglik, offset, f_i, f_k, f_a, f_tmp,
            f_loglik, f_pc>>
bwVars == <<b_R, i0, newp, iter, b_i, b_pc, Q_iter, p_iter>>
bvVars == <<arglog, v_i, v_offset, v_ret>>
vitVars == <<v_m, v_n, log_Q, log_i, log_p, oldmax, newmax, argmax, path,
             v_k, v_pc, bvVars>>
vars == <<dataVars, emVars, fbVars, bwVars, vitVars>>

\* Largest number of states and longest block of the decoder's inputs.
MaxStates == 3
MaxLen == 2
\* Largest number of states and of observations of the other inputs.
MaxM == 2
MaxObs == 3

\* An array as it lies in memory: every element a value, computed once.
Stored(f) == CHOOSE g \in {f} : g = f

\* The one element of a set: 'The({e(v) : v \in {d}})' is e(v) for v == d,
\* with d evaluated once.
The(S) == CHOOSE x \in S : TRUE

\* An array of len copies of x.
Fill(len, x) == [i \in 0..(len - 1) |-> x]

\* The array of the rows rs[1], ..., rs[n] of width w, row k at offset k*w.
Flat(w, n, rs) == [x \in 0..(n * w - 1) |-> rs[(x \div w) + 1][x % w]]

\* 'temp += ChIP->size[i]' over the nb blocks.
RECURSIVE SumSize(_, _)
SumSize(sz, i) == IF i = 0 THEN 0 ELSE sz[i - 1] + SumSize(sz, i - 1)

\* The subsystems a specification does not run stay as they are here.
IdleData ==
   /\ m = 0 /\ r = 0 /\ nb = 0 /\ size = <<>> /\ y = <<>> /\ Q = <<>>
   /\ a = Zero /\ pi = Zero /\ p = <<>> /\ l = Zero
   /\ jpem = "NULL" /\ jphi = "NULL"

IdleEm ==
   /\ e_fn = "none" /\ otype = 0 /\ output_type = "none" /\ e_t = Zero
   /\ e_q = <<>> /\ index = <<>> /\ pem = <<>> /\ logp = <<>> /\ logq = <<>>
   /\ e_k = 0 /\ e_pc = "idle"

IdleFb ==
   /\ init = <<>> /\ phi = <<>> /\ sumtrans = <<>> /\ T = <<>>
   /\ loglik = Zero /\ offset = 0 /\ f_i = 0 /\ f_k = 0 /\ f_a = <<>>
   /\ f_tmp = <<>> /\ f_loglik = Zero /\ f_pc = "idle"

IdleBw ==
   /\ b_R = Zero /\ i0 = 0 /\ newp = <<>> /\ iter = 0 /\ b_i = 0
   /\ b_pc = "idle"
   /\ Q_iter = <<>> /\ p_iter = <<>>

IdleVit ==
   /\ v_m = 0 /\ v_n = 0 /\ log_Q = <<>> /\ log_i = <<>> /\ log_p = <<>>
   /\ oldmax = <<>> /\ newmax = <<>> /\ argmax = <<>> /\ path = <<>>
   /\ v_k = 0 /\ v_pc = "idle"
   /\ arglog = 0 /\ v_i = 0 /\ v_offset = 0 /\ v_ret = 0

(***************************************************************************)
(* The inputs the specifications draw from.                                *)
(***************************************************************************)
\* Observation rows of r tracks: all zero, one read in the control track,
\* a missing value (negative) in the first or in the last track, and a row
\* of counts high enough for every state's emission to underflow.
YRows(rr) ==
   { [j \in 0..(rr - 1) |-> 0],
     [j \in 0..(rr - 1) |-> IF j = 0 THEN 1 ELSE 0],
     [j \in 0..(rr - 1) |-> IF j = 0 THEN -1 ELSE 0],
     [j \in 0..(rr - 1) |-> IF j = rr - 1 THEN -1 ELSE 0],
     [j \in 0..(rr - 1) |-> IF rr = 1 THEN 2 ELSE 1] }

\* Block sizes: every sequence of positive sizes summing to n.
RECURSIVE Partitions(_)
Partitions(n) ==
   IF n = 0 THEN {<<>>}
   ELSE UNION { {<<first>> \o rest : rest \in Partitions(n - first)} :
                first \in 1..n }

\* A block-size sequence as the array ChIP->size.
SizeArray(sq) == [i \in 0..(Len(sq) - 1) |-> sq[i + 1]]

\* P, (m, r+1): state i has p0 = 1/2^(i+1), p1 = p0/2 (so the ratio p1/p0 is
\* shared) and the rest spread over the other tracks; with one track every
\* state has (2/3, 1/3).  "scaled": rows sum to 3/2; "zero": the last entry
\* of state 0 is 0; "neg": it is negative; "ratio": p1 of state 0 is -1, so
\* that the ratio p1/p0 is below -1.
PEntry(rr, i, j) ==
   IF rr = 1 THEN (IF j = 0 THEN Rat(2, 3) ELSE Rat(1, 3))
   ELSE IF j = 0 THEN Rat(1, IPow(2, i + 1))
   ELSE IF j = 1 THEN Rat(1, IPow(2, i + 2))
   ELSE Rat(IPow(2, i + 2) - 3, IPow(2, i + 2) * (rr - 1))

PMatrix(mm, rr, kind) ==
   [x \in 0..(mm * (rr + 1) - 1) |->
      LET i == x \div (rr + 1)
          j == x % (rr + 1)
      IN  IF kind = "scaled" THEN fmul(Rat(3, 2), PEntry(rr, i, j))
          ELSE IF kind = "zero" /\ i = 0 /\ j = rr THEN Zero
          ELSE IF kind = "neg" /\ i = 0 /\ j = rr THEN Rat(-1, 4)
          ELSE IF kind = "ratio" /\ i = 0 /\ j = 1 THEN Rat(-1, 1)
          ELSE PEntry(rr, i, j)]

\* Q, (m, m), Q[i+j*m] the probability of i -> j: uniform, the identity, or
\* state 0 absorbing.
QMatrix(mm, kind) ==
   [x \in 0..(mm * mm - 1) |->
      LET i == x % mm
          j == x \div mm
      IN  IF kind = "ident" \/ (kind = "absorb" /\ i = 0)
          THEN (IF i = j THEN One ELSE Zero)
          ELSE Rat(1, mm)]

\* An initial distribution: uniform, or all on state 0.
InitVector(mm, kind) ==
   [j \in 0..(mm - 1) |->
      IF kind = "flat" THEN Rat(1, mm) ELSE IF j = 0 THEN One ELSE Zero]

(***************************************************************************)
(* indexts(): the index of the time series.  Its code is not among the     *)
(* source files; it is modelled from the specification's Indexer section.  *)
(***************************************************************************)
RowsEqual(rr, yy, k1, k2) ==
   \A j \in 0..(rr - 1) : yy[j + k1 * rr] = yy[j + k2 * rr]

is_all_zero(yy, k, rr) == \A i \in 0..(rr - 1) : yy[i + k * rr] = 0

\* index[k]: the first row equal to row k; i0: the first all-zero row, or -1.
indexts(n, rr, yy) ==
   [index |-> [k \in 0..(n - 1) |->
                 CHOOSE k1 \in 0..k :
                    /\ RowsEqual(rr, yy, k1, k)
                    /\ \A k2 \in 0..(k1 - 1) : ~ RowsEqual(rr, yy, k2, k)],
    i0 |-> IF \E k \in 0..(n - 1) : is_all_zero(yy, k, rr)
           THEN CHOOSE k \in 0..(n - 1) :
                   /\ is_all_zero(yy, k, rr)
                   /\ \A k2 \in 0..(k - 1) : ~ is_all_zero(yy, k2, rr)
           ELSE -1]

(***************************************************************************)
(* zinm_prob(): emission probabilities of the zero-inflated negative       *)
(* multinomial model.                                                      *)
(***************************************************************************)
is_invalid(yy, k, rr) == \E i \in 0..(rr - 1) : yy[i + k * rr] < 0

RECURSIVE Fact(_)
Fact(n) == IF n <= 1 THEN 1 ELSE n * Fact(n - 1)

\* lgamma(x) of an integer x: ln((x-1)!), and +infinity at the poles.
flgamma(x) ==
   IF IsNaN(x) THEN NAN
   ELSE IF ~ IsInt(x) THEN Unrep
   ELSE IF x[2] <= 0 THEN PINF
   ELSE Ln(Fact(x[2] - 1), 1)

\* 'cases[otype & 3]': the table has three entries, so mode bits 3 read past
\* its end and the pointer read is whatever lies there.
OutputTypes(ot) ==
   IF ot % 4 = 0 THEN {"depends"}
   ELSE IF ot % 4 = 1 THEN {"log_space"}
   ELSE IF ot % 4 = 2 THEN {"lin_space"}
   ELSE {"depends", "log_space", "lin_space", "garbage"}

\* 'if (p[j+i*(r+1)] < 0) return': 'p' has a negative entry.
ZinmNegative(mm, rr, pp) ==
   \E x \in 0..(mm * (rr + 1) - 1) : flt(pp[x], Zero)

\* logp[j+i*(r+1)] = log(p[j+i*(r+1)] / sump).
ZinmLogp(mm, rr, pp) ==
   [x \in 0..(mm * (rr + 1) - 1) |->
      LET i == x \div (rr + 1)
      IN  flog(fdiv(pp[x], fsum(pp, i * (rr + 1), i * (rr + 1) + rr, Zero)))]

\* pem[i+k*m] += y[j+k*r] * logp[(j+1)+i*(r+1)] for j = from .. r-1.
RECURSIVE ZinmTerms(_, _, _, _, _, _, _)
ZinmTerms(rr, yy, k, lp, i, j, acc) ==
   IF j >= rr THEN acc
   ELSE ZinmTerms(rr, yy, k, lp, i, j + 1,
           fadd(acc, fmul(Int2D(yy[j + k * rr]), lp[(j + 1) + i * (rr + 1)])))

\* sum += term; c_term -= lgamma(term+1) for j = from .. r-1: <<sum, c_term>>.
RECURSIVE ZinmConst(_, _, _, _, _)
ZinmConst(rr, yy, k, j, acc) ==
   IF j >= rr THEN acc
   ELSE ZinmConst(rr, yy, k, j + 1,
           <<fadd(acc[1], Int2D(yy[j + k * rr])),
             fsub(acc[2], flgamma(Int2D(yy[j + k * rr] + 1)))>>)

\* The log emissions of a first-seen row k without missing values.
ZinmLogRow(mm, rr, yy, k, aa, ppi, lp, cct) ==
   LET base == [i \in 0..(mm - 1) |->
                  IF is_all_zero(yy, k, rr)
                  THEN flog(fadd(fmul(ppi, fexp(fmul(aa, lp[0 + i * (rr + 1)]))),
                                 fsub(One, ppi)))
                  ELSE ZinmTerms(rr, yy, k, lp, i, 0,
                                 fmul(aa, lp[0 + i * (rr + 1)]))]
       sc   == ZinmConst(rr, yy, k, 0, <<aa, fneg(flgamma(aa))>>)
       c_term == fadd(sc[2], flgamma(sc[1]))
   IN  IF cct = 1 THEN [i \in 0..(mm - 1) |-> fadd(base[i], c_term)]
       ELSE base

\* The row as written for the output type: 'lin' unless log space was asked
\* for, or every exponential is 0 and linear space was not forced.
ZinmOutRow(mm, logrow, ot) ==
   LET lin == [i \in 0..(mm - 1) |-> fexp(logrow[i])]
       sum == fsum(lin, 0, mm - 1, Zero)
   IN  IF ot = "log_space" THEN logrow
       ELSE IF fgt(sum, Zero) \/ ot = "lin_space" THEN lin
       ELSE logrow

\* memcpy(pem + k*m, row, m * sizeof(double)).
PutRow(pe, mm, k, row) ==
   [x \in DOMAIN pe |-> IF x \div mm = k THEN row[x % mm] ELSE pe[x]]

\* The m doubles at pe + k*m.
GetRow(pe, mm, k) == [i \in 0..(mm - 1) |-> pe[i + k * mm]]

\* ZinmStep without the memcpy of a row seen before.
ZinmStepNoCopy(mm, rr, yy, aa, ppi, lp, idx, ot, cct, pe, k) ==
   IF idx[k] < k THEN pe
   ELSE IF is_invalid(yy, k, rr) THEN PutRow(pe, mm, k, Fill(mm, NAN))
   ELSE PutRow(pe, mm, k,
               ZinmOutRow(mm, ZinmLogRow(mm, rr, yy, k, aa, ppi, lp, cct), ot))

\* One turn of the row loop of zinm_prob.
ZinmStep(mm, rr, yy, aa, ppi, lp, idx, ot, cct, pe, k) ==
   IF idx[k] < k THEN PutRow(pe, mm, k, GetRow(pe, mm, idx[k]))
   ELSE IF is_invalid(yy, k, rr) THEN PutRow(pe, mm, k, Fill(mm, NAN))
   ELSE PutRow(pe, mm, k,
               ZinmOutRow(mm, ZinmLogRow(mm, rr, yy, k, aa, ppi, lp, cct), ot))

RECURSIVE ZinmLoop(_, _, _, _, _, _, _, _, _, _, _, _)
ZinmLoop(mm, rr, n, yy, aa, ppi, lp, idx, ot, cct, pe, k) ==
   IF k >= n THEN pe
   ELSE ZinmLoop(mm, rr, n, yy, aa, ppi, lp, idx, ot, cct,
                 Stored(ZinmStep(mm, rr, yy, aa, ppi, lp, idx, ot, cct, pe,
                                 k)),
                 k + 1)

\* zinm_prob(jahmm, index, otype, pem) with output type ot: pem on return.
zinm_prob(mm, rr, n, yy, aa, ppi, pp, idx, ot, cct, pe) ==
   IF ZinmNegative(mm, rr, pp) THEN pe
   ELSE ZinmLoop(mm, rr, n, yy, aa, ppi, Stored(ZinmLogp(mm, rr, pp)), idx,
                 ot, cct, pe, 0)

(***************************************************************************)
(* mnmultinom_prob(): emission probabilities of the two-component mixture. *)
(***************************************************************************)
\* logp (or logq) [j+i*(r+1)] = log(p[j+i*(r+1)] / renorm_p).
MnmLogp(mm, rr, pp) ==
   [x \in 0..(mm * (rr + 1) - 1) |->
      LET i == x \div (rr + 1)
      IN  flog(fdiv(pp[x], fsum(pp, i * (rr + 1), i * (rr + 1) + rr, Zero)))]

\* p_term (or q_term): log_theta + a * logp[0] + the sum of yz[j] * logp[j+1].
MnmTerm(rr, yy, k, aa, lp, i, log_weight) ==
   ZinmTerms(rr, yy, k, lp, i, 0,
             fadd(log_weight, fmul(aa, lp[0 + i * (rr + 1)])))

\* The 'switch (*output)' for state i of row k.
MnmValue(rr, yy, k, aa, tt, lp, lq, i, out) ==
   LET p_term == MnmTerm(rr, yy, k, aa, lp, i, flog(tt))
       q_term == MnmTerm(rr, yy, k, aa, lq, i, flog(fsub(One, tt)))
       small  == IF flt(q_term, p_term) THEN q_term ELSE p_term
       big    == IF fge(q_term, p_term) THEN q_term ELSE p_term
   IN  IF out = 3 THEN fadd(fexp(p_term), fexp(q_term))
       ELSE IF out = 2
            THEN fdiv(One, fadd(One, fexp(fsub(q_term, p_term))))
       ELSE fadd(big, flog(fadd(One, fexp(fsub(small, big)))))

\* The row after 'if (*output == 0)': linear unless every value underflows.
MnmOutRow(mm, row, out) ==
   LET lin == [i \in 0..(mm - 1) |-> fexp(row[i])]
       sum == fsum(lin, 0, mm - 1, Zero)
   IN  IF out = 0 /\ fgt(sum, Zero) THEN lin ELSE row

\* MnmStep with only the first slot of an invalid row set to NaN.
MnmStepOneSlot(mm, rr, yy, aa, tt, lp, lq, idx, out, pe, k) ==
   IF idx[k] < k THEN PutRow(pe, mm, k, GetRow(pe, mm, idx[k]))
   ELSE IF is_invalid(yy, k, rr)
   THEN [x \in DOMAIN pe |-> IF x = k * mm THEN NAN ELSE pe[x]]
   ELSE PutRow(pe, mm, k,
               MnmOutRow(mm, [i \in 0..(mm - 1) |->
                                MnmValue(rr, yy, k, aa, tt, lp, lq, i, out)],
                         out))

\* One turn of the row loop of mnmultinom_prob.
MnmStep(mm, rr, yy, aa, tt, lp, lq, idx, out, pe, k) ==
   IF idx[k] < k THEN PutRow(pe, mm, k, GetRow(pe, mm, idx[k]))
   ELSE IF is_invalid(yy, k, rr) THEN PutRow(pe, mm, k, Fill(mm, NAN))
   ELSE PutRow(pe, mm, k,
               MnmOutRow(mm, [i \in 0..(mm - 1) |->
                                MnmValue(rr, yy, k, aa, tt, lp, lq, i, out)],
                         out))

(***************************************************************************)
(* SpecEm: one call of an emission evaluator, a row of the loop at a time. *)
(***************************************************************************)
\* n: the number of observations.
NObs == SumSize(size, nb)

\* The second component's parameters: those of p with the states reversed.
QParam(mm, rr) ==
   [x \in 0..(mm * (rr + 1) - 1) |->
      PEntry(rr, mm - 1 - (x \div (rr + 1)), x % (rr + 1))]

\* The observations and the emission parameters of a call.
EmData ==
   /\ m = MaxM
   /\ r \in {1, 2}
   /\ nb = 1
   /\ \E n \in 1..MaxObs :
         /\ size = SizeArray(<<n>>)
         /\ \E rows \in [1..n -> YRows(r)] : y = Flat(r, n, rows)
   /\ Q = QMatrix(m, "flat")
   /\ pi = Rat(1, 2)
   /\ \E par \in {<<"ok", 1>>, <<"ok", 2>>, <<"scaled", 1>>, <<"zero", 1>>,
                  <<"neg", 1>>} :
         /\ p = PMatrix(m, r, par[1])
         /\ a = Int2D(par[2])
   /\ l = Zero /\ jpem = "NULL" /\ jphi = "NULL"

EmInit ==
   /\ IdleFb /\ IdleBw /\ IdleVit
   /\ EmData
   /\ \/ /\ e_fn = "zinm_prob"
         /\ otype \in {0, 1, 2, 3, 4, 5, 9}
         /\ index = indexts(NObs, r, y).index
      \/ /\ e_fn = "mnmultinom_prob"
         /\ otype \in {0, 1, 2, 3}
         \* '*index < 0' asks for the index; otherwise it is the caller's.
         /\ index \in {Fill(NObs, -1), indexts(NObs, r, y).index}
   /\ output_type = "none"
   /\ e_t = Rat(1, 2)
   /\ e_q = QParam(m, r)
   \* 'pem' is the caller's buffer, not initialised.
   /\ pem \in {Fill(NObs * m, Zero), Fill(NObs * m, NAN)}
   /\ logp = <<>> /\ logq = <<>>
   /\ e_k = 0
   /\ e_pc = "enter"

EmFrame == UNCHANGED <<dataVars, fbVars, bwVars, vitVars, e_fn, otype, e_t, e_q>>

\* zinm_prob up to the row loop, 'p' without a negative entry.
ZinmEnter ==
   /\ e_fn = "zinm_prob" /\ e_pc = "enter"
   /\ ~ ZinmNegative(m, r, p)
   /\ output_type' \in OutputTypes(otype)
   /\ logp' = ZinmLogp(m, r, p)
   /\ e_k' = 0
   /\ e_pc' = "rows"
   /\ UNCHANGED <<index, pem, logq>>
   /\ EmFrame

\* zinm_prob finds a negative entry in 'p': "error: 'p' negative", return.
ZinmReject ==
   /\ e_fn = "zinm_prob" /\ e_pc = "enter"
   /\ ZinmNegative(m, r, p)
   /\ output_type' \in OutputTypes(otype)
   /\ e_pc' = "rejected"
   /\ UNCHANGED <<index, pem, logp, logq, e_k>>
   /\ EmFrame

ZinmTurn ==
   /\ pem' = ZinmStep(m, r, y, a, pi, logp, index, output_type,
                      (otype \div 8) % 2, pem, e_k)
   /\ e_k' = e_k + 1
   /\ UNCHANGED <<output_type, index, logp, logq, e_pc>>
   /\ EmFrame

\* A row seen before: copy the values.
ZinmCopy ==
   /\ e_fn = "zinm_prob" /\ e_pc = "rows" /\ e_k < NObs
   /\ index[e_k] < e_k
   /\ ZinmTurn

\* A first-seen row with a missing value: a row of NaN.
ZinmNA ==
   /\ e_fn = "zinm_prob" /\ e_pc = "rows" /\ e_k < NObs
   /\ ~ (index[e_k] < e_k) /\ is_invalid(y, e_k, r)
   /\ ZinmTurn

\* A first-seen row: compute the emissions.
ZinmCompute ==
   /\ e_fn = "zinm_prob" /\ e_pc = "rows" /\ e_k < NObs
   /\ ~ (index[e_k] < e_k) /\ ~ is_invalid(y, e_k, r)
   /\ ZinmTurn

ZinmReturn ==
   /\ e_fn = "zinm_prob" /\ e_pc = "rows" /\ e_k >= NObs
   /\ e_pc' = "done"
   /\ UNCHANGED <<output_type, index, pem, logp, logq, e_k>>
   /\ EmFrame

\* mnmultinom_prob up to the row loop.
MnmEnter ==
   /\ e_fn = "mnmultinom_prob" /\ e_pc = "enter"
   /\ index' = IF index[0] < 0 THEN indexts(NObs, r, y).index ELSE index
   /\ logp' = MnmLogp(m, r, p)
   /\ logq' = MnmLogp(m, r, e_q)
   /\ e_k' = 0
   /\ e_pc' = "rows"
   /\ UNCHANGED <<output_type, pem>>
   /\ EmFrame

MnmTurn ==
   /\ pem' = MnmStep(m, r, y, a, e_t, logp, logq, index, otype, pem, e_k)
   /\ e_k' = e_k + 1
   /\ UNCHANGED <<output_type, index, logp, logq, e_pc>>
   /\ EmFrame

MnmCopy ==
   /\ e_fn = "mnmultinom_prob" /\ e_pc = "rows" /\ e_k < NObs
   /\ index[e_k] < e_k
   /\ MnmTurn

MnmNA ==
   /\ e_fn = "mnmultinom_prob" /\ e_pc = "rows" /\ e_k < NObs
   /\ ~ (index[e_k] < e_k) /\ is_invalid(y, e_k, r)
   /\ MnmTurn

MnmCompute ==
   /\ e_fn = "mnmultinom_prob" /\ e_pc = "rows" /\ e_k < NObs
   /\ ~ (index[e_k] < e_k) /\ ~ is_invalid(y, e_k, r)
   /\ MnmTurn

MnmReturn ==
   /\ e_fn = "mnmultinom_prob" /\ e_pc = "rows" /\ e_k >= NObs
   /\ e_pc' = "done"
   /\ UNCHANGED <<output_type, index, pem, logp, logq, e_k>>
   /\ EmFrame

EmNext ==
   \/ ZinmEnter \/ ZinmReject \/ ZinmCopy \/ ZinmNA \/ ZinmCompute
   \/ ZinmReturn
   \/ MnmEnter \/ MnmCopy \/ MnmNA \/ MnmCompute \/ MnmReturn

SpecEm == EmInit /\ [][EmNext]_vars

\* Row k of Y has a negative entry.
HasNegative(k) == \E j \in 0..(r - 1) : y[j + k * r] < 0

(***************************************************************************)
(* The claims about the emission evaluators.                               *)
(***************************************************************************)
\* C4: when an evaluator returns after its row loop, every row seen before
\* (index[k] < k) holds exactly the m values of the row index[k].
C4_DuplicateRowsAreCopies ==
   e_pc = "done" =>
      \A k \in 0..(NObs - 1) :
         index[k] < k => GetRow(pem, m, k) = GetRow(pem, m, index[k])

\* A duplicate of a row that the underflow fallback left in log space.
C4_Witness ==
   /\ e_pc = "done" /\ e_fn = "zinm_prob" /\ output_type = "depends"
   /\ \E k \in 0..(NObs - 1) :
         /\ index[k] < k
         /\ ~ HasNegative(k)
         /\ flt(pem[0 + k * m], Zero)

\* Every slot of every row with a negative entry is NaN.
MissingRowsAreNaN ==
   \A k \in 0..(NObs - 1) :
      HasNegative(k) => \A i \in 0..(m - 1) : IsNaN(pem[i + k * m])

\* C6 as stated: after an evaluator returns (in whatever way), every row of
\* Y with a negative entry is NaN in all m slots of pem.
C6_MissingRowsNaNOnAnyReturn ==
   e_pc \in {"done", "rejected"} => MissingRowsAreNaN

\* C6 as amended: after an evaluator returns from its row loop, every row of
\* Y with a negative entry is NaN in all m slots of pem; when zinm_prob
\* returns on a negative entry of 'p', pem is as the caller passed it.
C6_MissingRowsNaNAfterRowLoop ==
   /\ e_pc = "done" => MissingRowsAreNaN
   /\ e_pc = "rejected" =>
         pem \in {Fill(NObs * m, Zero), Fill(NObs * m, NAN)}

\* A duplicate row whose only negative entry is in the last of two tracks.
C6_Witness ==
   /\ e_pc = "done" /\ r = 2
   /\ \E k \in 0..(NObs - 1) :
         /\ index[k] < k
         /\ y[0 + k * r] >= 0
         /\ y[1 + k * r] < 0

\* The case of the 'switch (*output)' that computes what the header of
\* mnmultinom_prob documents for an output code: linear space for 1 (the
\* code's case 3), log space for 2 (its default), the ratio for 3 (its
\* case 2).
MnmHeaderCase(out) ==
   IF out = 1 THEN 3 ELSE IF out = 2 THEN 1 ELSE IF out = 3 THEN 2 ELSE 0

\* C15: after mnmultinom_prob returns, every row without a missing value
\* holds what the header documents for the output code: the probability in
\* linear space for 1, in log space for 2, the mixture ratio
\* 1/(1+exp(q_term - p_term)) for 3, and for 0 linear values unless all m
\* underflow, which leaves the row in log space.
C15_OutputFollowsHeader ==
   (e_fn = "mnmultinom_prob" /\ e_pc = "done") =>
      \A k \in 0..(NObs - 1) :
         ~ is_invalid(y, k, r) =>
            GetRow(pem, m, k) =
               MnmOutRow(m, [i \in 0..(m - 1) |->
                               MnmValue(r, y, k, a, e_t, logp, logq, i,
                                        MnmHeaderCase(otype))],
                         otype)

\* The log emissions zinm_prob computes for row k, and their exponentials.
ZinmRowLog(k) ==
   ZinmLogRow(m, r, y, k, a, pi, logp, (otype \div 8) % 2)
ZinmRowLin(k) == [i \in 0..(m - 1) |-> fexp(ZinmRowLog(k)[i])]

\* C16: after zinm_prob returns from its row loop, a first-seen row without
\* a missing value holds, for mode bits 0, the exponentials of its m log
\* emissions unless all of them are zero, and then its log emissions; for
\* mode bits 1 its log emissions; for mode bits 2 the exponentials, zero or
\* not.  Each row is decided on its own values.
C16_RowRepresentationFollowsMode ==
   (e_fn = "zinm_prob" /\ e_pc = "done" /\ otype % 4 \in {0, 1, 2}) =>
      \A k \in 0..(NObs - 1) :
         (index[k] = k /\ ~ is_invalid(y, k, r)) =>
            GetRow(pem, m, k) =
               IF otype % 4 = 1 THEN ZinmRowLog(k)
               ELSE IF otype % 4 = 2 THEN ZinmRowLin(k)
               ELSE IF \A i \in 0..(m - 1) : ZinmRowLin(k)[i] = Zero
                    THEN ZinmRowLog(k)
                    ELSE ZinmRowLin(k)

\* Row k was left by zinm_prob as the log emissions, not their exponentials.
ZinmLeftInLog(k) ==
   /\ ~ is_invalid(y, k, r)
   /\ GetRow(pem, m, k) = ZinmRowLog(k)
   /\ GetRow(pem, m, k) # ZinmRowLin(k)

\* C25: after zinm_prob returns from its row loop with mode bits 0, every
\* row of pem is all NaN, all >= 0 or all < 0, and its first slot is < 0
\* exactly when the row was left in log space.
C25_RowsAreWhollyOneSpace ==
   (e_fn = "zinm_prob" /\ e_pc = "done" /\ otype % 4 = 0) =>
      \A k \in 0..(NObs - 1) :
         /\ \/ \A i \in 0..(m - 1) : IsNaN(pem[i + k * m])
            \/ \A i \in 0..(m - 1) : fge(pem[i + k * m], Zero)
            \/ \A i \in 0..(m - 1) : flt(pem[i + k * m], Zero)
         /\ flt(pem[0 + k * m], Zero) <=> ZinmLeftInLog(k)

\* C26: whatever otype zinm_prob is called with, the output type it reads
\* from its table is one of the table's three entries.
C26_OutputTypeIsInTable ==
   (e_fn = "zinm_prob" /\ e_pc # "enter") =>
      output_type \in {"depends", "log_space", "lin_space"}

(***************************************************************************)
(* fwd(): the forward algorithm on one block.  The block's emissions are   *)
(* the rows at prob + off.                                                 *)
(***************************************************************************)
\* tmp: 'init' at k = 0, otherwise tmp[j] = sum over i of a[i] * Q[i+j*m].
FwdPredict(mm, QQ, ini, k, av) ==
   IF k = 0 THEN ini
   ELSE [j \in 0..(mm - 1) |->
           fsum([i \in 0..(mm - 1) |-> fmul(av[i], QQ[i + j * mm])],
                0, mm - 1, Zero)]

\* 'for (j = 1 ; j < m ; j++) if (prob[j+k*m] > prob[w+k*m]) w = j'.
RECURSIVE FwdArgmax(_, _, _, _)
FwdArgmax(mm, row, j, w) ==
   IF j >= mm THEN w
   ELSE FwdArgmax(mm, row, j + 1, IF fgt(row[j], row[w]) THEN j ELSE w)

\* FwdStep without the memcpy of tmp to prob at a row with a NaN.
FwdStepKeepsRow(mm, QQ, ini, prob, off, k, av, ll) ==
   LET tmp == Stored(FwdPredict(mm, QQ, ini, k, av))
       row == [j \in 0..(mm - 1) |-> prob[off + j + k * mm]]
       put(v) == [x \in DOMAIN prob |->
                    IF x >= off + k * mm /\ x < off + (k + 1) * mm
                    THEN v[x - off - k * mm] ELSE prob[x]]
       in_log == flt(row[0], Zero)
       w == FwdArgmax(mm, row, 1, 0)
       a1 == Stored(IF in_log
                    THEN [j \in 0..(mm - 1) |->
                            fmul(tmp[j], fexp(fsub(row[j], row[w])))]
                    ELSE [j \in 0..(mm - 1) |-> fmul(tmp[j], row[j])])
       c == fsum(a1, 0, mm - 1, Zero)
       ll1 == IF in_log THEN fadd(ll, row[w]) ELSE ll
   IN  IF \E j \in 0..(mm - 1) : IsNaN(row[j])
       THEN [a |-> tmp, prob |-> prob, loglik |-> ll, tmp |-> tmp]
       ELSE IF ~ fgt(c, Zero)
       THEN [a |-> tmp, prob |-> put(tmp), loglik |-> ll1, tmp |-> tmp]
       ELSE LET a2 == [j \in 0..(mm - 1) |-> fdiv(a1[j], c)]
            IN  [a |-> a2, prob |-> put(a2), loglik |-> fadd(ll1, flog(c)),
                 tmp |-> tmp]

\* One turn of the loop of fwd: the new a, prob and loglik, and tmp.
FwdStep(mm, QQ, ini, prob, off, k, av, ll) ==
   LET tmp == Stored(FwdPredict(mm, QQ, ini, k, av))
       row == [j \in 0..(mm - 1) |-> prob[off + j + k * mm]]
       put(v) == [x \in DOMAIN prob |->
                    IF x >= off + k * mm /\ x < off + (k + 1) * mm
                    THEN v[x - off - k * mm] ELSE prob[x]]
       na_found == \E j \in 0..(mm - 1) : IsNaN(row[j])
       in_log == flt(row[0], Zero)
       w == FwdArgmax(mm, row, 1, 0)
       a1 == Stored(IF in_log
                    THEN [j \in 0..(mm - 1) |->
                            fmul(tmp[j], fexp(fsub(row[j], row[w])))]
                    ELSE [j \in 0..(mm - 1) |-> fmul(tmp[j], row[j])])
       c == fsum(a1, 0, mm - 1, Zero)
       ll1 == IF in_log THEN fadd(ll, row[w]) ELSE ll
   IN  IF na_found
       THEN [a |-> tmp, prob |-> put(tmp), loglik |-> ll, tmp |-> tmp]
       ELSE IF ~ fgt(c, Zero)
       THEN [a |-> tmp, prob |-> put(tmp), loglik |-> ll1, tmp |-> tmp]
       ELSE LET a2 == [j \in 0..(mm - 1) |-> fdiv(a1[j], c)]
            IN  [a |-> a2, prob |-> put(a2), loglik |-> fadd(ll1, flog(c)),
                 tmp |-> tmp]

RECURSIVE FwdLoop(_, _, _, _, _, _, _, _, _)
FwdLoop(mm, n, QQ, ini, prob, off, k, av, ll) ==
   IF k >= n THEN [prob |-> prob, loglik |-> ll]
   ELSE The({ FwdLoop(mm, n, QQ, ini, Stored(st.prob), off, k + 1,
                      Stored(st.a), st.loglik) :
                 st \in {FwdStep(mm, QQ, ini, prob, off, k, av, ll)} })

\* fwd(m, n, Q, init, prob + off): prob on return and the value returned.
\* 'a' is not initialised and not read before the turn k = 0 has set it.
fwd(mm, n, QQ, ini, prob, off) ==
   FwdLoop(mm, n, QQ, ini, prob, off, 0, Fill(mm, NAN), Zero)

(***************************************************************************)
(* bwd(): the backward pass with Markovian smoothing on one block.         *)
(***************************************************************************)
\* BwdStart without the memcpy of the last alpha to phi.
BwdStartNoCopy(mm, n, alpha, ph, off) ==
   [phi |-> [x \in DOMAIN ph |->
               IF x >= off /\ x < off + n * mm THEN Zero ELSE ph[x]],
    T |-> Fill(mm * mm, Zero)]

\* memset T and phi, then phi[n-1] = alpha[n-1]: phi and T.
BwdStart(mm, n, alpha, ph, off) ==
   [phi |-> [x \in DOMAIN ph |->
               IF x >= off + (n - 1) * mm /\ x < off + n * mm THEN alpha[x]
               ELSE IF x >= off /\ x < off + n * mm THEN Zero
               ELSE ph[x]],
    T |-> Fill(mm * mm, Zero)]

\* The reverse kernel at step k: R[j+i*m] = alpha[i+k*m]*Q[i+j*m] / x, with
\* x the sum over i of alpha[i+k*m]*Q[i+j*m].
BwdKernel(mm, QQ, alpha, off, k) ==
   [z \in 0..(mm * mm - 1) |->
      LET j == z % mm
          i == z \div mm
          x == fsum([i2 \in 0..(mm - 1) |->
                       fmul(alpha[off + i2 + k * mm], QQ[i2 + j * mm])],
                    0, mm - 1, Zero)
      IN  fdiv(fmul(alpha[off + i + k * mm], QQ[i + j * mm]), x)]

\* BwdStep with 'T[i+j*m] += x': the count of j -> i added to T[i, j].
BwdStepTransposed(mm, QQ, alpha, ph, Tv, off, k) ==
   LET R == Stored(BwdKernel(mm, QQ, alpha, off, k))
       x(i, j) == fmul(ph[off + i + (k + 1) * mm], R[i + j * mm])
   IN  [phi |-> [z \in DOMAIN ph |->
                   IF z >= off + k * mm /\ z < off + (k + 1) * mm
                   THEN fsum([i \in 0..(mm - 1) |-> x(i, z - off - k * mm)],
                             0, mm - 1, ph[z])
                   ELSE ph[z]],
        T |-> [z \in 0..(mm * mm - 1) |-> fadd(Tv[z], x(z % mm, z \div mm))]]

\* One turn of 'for (k = n-2 ; k >= 0 ; k--)': phi and T after it.
BwdStep(mm, QQ, alpha, ph, Tv, off, k) ==
   LET R == Stored(BwdKernel(mm, QQ, alpha, off, k))
       x(i, j) == fmul(ph[off + i + (k + 1) * mm], R[i + j * mm])
   IN  [phi |-> [z \in DOMAIN ph |->
                   IF z >= off + k * mm /\ z < off + (k + 1) * mm
                   THEN fsum([i \in 0..(mm - 1) |-> x(i, z - off - k * mm)],
                             0, mm - 1, ph[z])
                   ELSE ph[z]],
        T |-> [z \in 0..(mm * mm - 1) |-> fadd(Tv[z], x(z \div mm, z % mm))]]

RECURSIVE BwdLoop(_, _, _, _, _, _, _)
BwdLoop(mm, QQ, alpha, ph, Tv, off, k) ==
   IF k < 0 THEN [phi |-> ph, T |-> Tv]
   ELSE The({ BwdLoop(mm, QQ, alpha, Stored(st.phi), Stored(st.T), off,
                      k - 1) :
                 st \in {BwdStep(mm, QQ, alpha, ph, Tv, off, k)} })

\* bwd(m, n, Q, alpha + off, phi + off, T): phi and T on return.
bwd(mm, n, QQ, alpha, ph, off) ==
   The({ BwdLoop(mm, QQ, alpha, Stored(st.phi), Stored(st.T), off, n - 2) :
            st \in {BwdStart(mm, n, alpha, ph, off)} })

\* fwdb(): fwd, then bwd on the alphas it left in prob.
fwdb(mm, n, QQ, ini, prob, ph, off) ==
   The({ The({ [prob |-> f.prob, phi |-> b.phi, T |-> b.T,
                 loglik |-> f.loglik] :
               b \in {bwd(mm, n, QQ, f.prob, Stored(ph), off)} }) :
         f \in {fwd(mm, n, QQ, ini, Stored(prob), off)} })

(***************************************************************************)
(* block_fwdb(): fwdb on each block of the time series.                    *)
(***************************************************************************)
\* sumtrans[j] += T[j] for every j.
AddTrans(st, Tv) == [z \in DOMAIN st |-> fadd(st[z], Tv[z])]

RECURSIVE BlockLoop(_, _, _, _, _, _, _, _, _, _)
BlockLoop(mm, nblocks, sz, QQ, ini, prob, ph, st, ll, i) ==
   IF i >= nblocks
   THEN [prob |-> prob, phi |-> ph, sumtrans |-> st, loglik |-> ll]
   ELSE The({ BlockLoop(mm, nblocks, sz, QQ, ini, fb.prob, fb.phi,
                        Stored(AddTrans(st, fb.T)), fadd(ll, fb.loglik),
                        i + 1) :
                 fb \in {fwdb(mm, sz[i], QQ, ini, prob, ph,
                              mm * SumSize(sz, i))} })

\* block_fwdb(m, nblocks, size, Q, init, prob, phi, sumtrans, &loglik): what
\* it leaves in prob, phi, sumtrans and loglik.
block_fwdb(mm, nblocks, sz, QQ, ini, prob, ph) ==
   BlockLoop(mm, nblocks, sz, QQ, ini, prob, ph, Fill(mm * mm, Zero), Zero, 0)

(***************************************************************************)
(* SpecFB: one call of block_fwdb, a turn of the loops of fwd and bwd at a *)
(* time, on the emissions zinm_prob computes for the observations.         *)
(***************************************************************************)
\* 'zinm_prob(jahmm, index, 4, pem)': the emissions bw_zinm hands over.
Emissions(mm, rr, n, yy, aa, ppi, pp) ==
   zinm_prob(mm, rr, n, yy, aa, ppi, pp, indexts(n, rr, yy).index, "depends",
             0, Fill(n * mm, Zero))

FbData ==
   /\ m = MaxM
   /\ r = 2
   /\ \E n \in 1..MaxObs :
         /\ \E part \in Partitions(n) : nb = Len(part) /\ size = SizeArray(part)
         /\ \E rows \in [1..n -> YRows(r)] : y = Flat(r, n, rows)
   /\ \E kind \in {"flat", "ident", "absorb"} : Q = QMatrix(m, kind)
   /\ a = One
   /\ pi = Rat(1, 2)
   /\ \E kind \in {"ok", "zero"} : p = PMatrix(m, r, kind)
   /\ l = Zero /\ jpem = "NULL" /\ jphi = "NULL"

FbInit ==
   /\ IdleBw /\ IdleVit
   /\ FbData
   /\ e_fn = "none" /\ otype = 4 /\ output_type = "depends" /\ e_t = Zero
   /\ e_q = <<>> /\ logp = <<>> /\ logq = <<>> /\ e_k = 0 /\ e_pc = "idle"
   /\ index = indexts(NObs, r, y).index
   /\ pem = Emissions(m, r, NObs, y, a, pi, p)
   /\ \E kind \in {"flat", "first"} : init = InitVector(m, kind)
   \* The output buffers and the locals are not initialised.
   /\ phi \in {Fill(NObs * m, Zero), Fill(NObs * m, NAN)}
   /\ sumtrans = Fill(m * m, NAN)
   /\ T = <<>>
   /\ loglik = NAN
   /\ offset = 0 /\ f_i = 0 /\ f_k = 0
   /\ f_a = Fill(m, NAN) /\ f_tmp = Fill(m, NAN)
   /\ f_loglik = Zero
   /\ f_pc = "enter"

FbFrame == UNCHANGED <<dataVars, bwVars, vitVars, e_fn, otype, output_type,
                       e_t, e_q, index, logp, logq, e_k, e_pc, init>>

\* block_fwdb up to the first call of fwdb.
FbEnter ==
   /\ f_pc = "enter"
   /\ loglik' = Zero
   /\ offset' = 0
   /\ sumtrans' = Fill(m * m, Zero)
   /\ T' = Fill(m * m, NAN)
   /\ f_i' = 0 /\ f_k' = 0 /\ f_loglik' = Zero
   /\ f_pc' = IF nb > 0 THEN "fwd" ELSE "done"
   /\ UNCHANGED <<pem, phi, f_a, f_tmp>>
   /\ FbFrame

\* The emission row of the step fwd is at.
FbRow == [j \in 0..(m - 1) |-> pem[offset + j + f_k * m]]

FbFwdTurn ==
   /\ f_pc = "fwd" /\ f_k < size[f_i]
   /\ LET st == FwdStep(m, Q, init, pem, offset, f_k, f_a, f_loglik)
      IN  /\ f_a' = st.a
          /\ pem' = st.prob
          /\ f_loglik' = st.loglik
          /\ f_tmp' = st.tmp
   /\ f_k' = f_k + 1
   /\ UNCHANGED <<phi, sumtrans, T, loglik, offset, f_i, f_pc>>
   /\ FbFrame

\* A turn of fwd at a row with a NaN.
FbFwdMissing ==
   /\ f_pc = "fwd" /\ f_k < size[f_i]
   /\ \E j \in 0..(m - 1) : IsNaN(FbRow[j])
   /\ FbFwdTurn

\* A turn of fwd at a row in log space.
FbFwdLog ==
   /\ f_pc = "fwd" /\ f_k < size[f_i]
   /\ \A j \in 0..(m - 1) : ~ IsNaN(FbRow[j])
   /\ flt(FbRow[0], Zero)
   /\ FbFwdTurn

\* A turn of fwd at a row in linear space.
FbFwdLin ==
   /\ f_pc = "fwd" /\ f_k < size[f_i]
   /\ \A j \in 0..(m - 1) : ~ IsNaN(FbRow[j])
   /\ ~ flt(FbRow[0], Zero)
   /\ FbFwdTurn

\* fwd returns; bwd up to its loop.
FbBwdStart ==
   /\ f_pc = "fwd" /\ f_k >= size[f_i]
   /\ LET st == BwdStart(m, size[f_i], pem, phi, offset)
      IN  phi' = st.phi /\ T' = st.T
   /\ f_k' = size[f_i] - 2
   /\ f_pc' = "bwd"
   /\ UNCHANGED <<pem, sumtrans, loglik, offset, f_i, f_a, f_tmp, f_loglik>>
   /\ FbFrame

\* A turn of the loop of bwd.
FbBwdTurn ==
   /\ f_pc = "bwd" /\ f_k >= 0
   /\ LET st == BwdStep(m, Q, pem, phi, T, offset, f_k)
      IN  phi' = st.phi /\ T' = st.T
   /\ f_k' = f_k - 1
   /\ UNCHANGED <<pem, sumtrans, loglik, offset, f_i, f_a, f_tmp, f_loglik,
                  f_pc>>
   /\ FbFrame

\* FbBlockDone with 'loglik = ...' and 'sumtrans[i] = trans[i]' for '+=':
\* the results of the last block instead of the sums over the blocks.
FbBlockDoneLastOnly ==
   /\ f_pc = "bwd" /\ f_k < 0
   /\ loglik' = f_loglik
   /\ sumtrans' = T
   /\ offset' = offset + m * size[f_i]
   /\ f_i' = f_i + 1
   /\ f_k' = 0
   /\ f_loglik' = Zero
   /\ f_pc' = IF f_i + 1 < nb THEN "fwd" ELSE "done"
   /\ UNCHANGED <<pem, phi, T, f_a, f_tmp>>
   /\ FbFrame

\* bwd and fwdb return; block_fwdb adds the block's results and moves on.
FbBlockDone ==
   /\ f_pc = "bwd" /\ f_k < 0
   /\ loglik' = fadd(loglik, f_loglik)
   /\ sumtrans' = AddTrans(sumtrans, T)
   /\ offset' = offset + m * size[f_i]
   /\ f_i' = f_i + 1
   /\ f_k' = 0
   /\ f_loglik' = Zero
   /\ f_pc' = IF f_i + 1 < nb THEN "fwd" ELSE "done"
   /\ UNCHANGED <<pem, phi, T, f_a, f_tmp>>
   /\ FbFrame

FbNext ==
   \/ FbEnter
   \/ FbFwdMissing
   \/ FbFwdLog
   \/ FbFwdLin
   \/ FbBwdStart
   \/ FbBwdTurn
   \/ FbBlockDone

SpecFB == FbInit /\ [][FbNext]_vars

\* The rows of block b, and the block of row k.
BlockRows(b) == SumSize(size, b)..(SumSize(size, b + 1) - 1)
BlockOf(k) == CHOOSE b \in 0..(nb - 1) : k \in BlockRows(b)

\* The emissions block_fwdb was called with.
Emissions0 == Emissions(m, r, NObs, y, a, pi, p)

\* init sums to 1 and every row of Q sums to 1.
StochasticInput ==
   /\ fsum(init, 0, m - 1, Zero) = One
   /\ \A i \in 0..(m - 1) :
         fsum([j \in 0..(m - 1) |-> Q[i + j * m]], 0, m - 1, Zero) = One

\* C2: after the forward-backward pass on a block with a non-missing
\* emission row, init summing to 1 and Q row-stochastic, every row of phi of
\* the block sums to 1 and has no NaN.
C2_PosteriorRowsSumToOne ==
   (f_pc = "done" /\ StochasticInput) =>
      LET prob == Emissions0
      IN  \A b \in 0..(nb - 1) :
             (\E k \in BlockRows(b) :
                 \A j \in 0..(m - 1) : ~ IsNaN(prob[j + k * m]))
             => \A k \in BlockRows(b) :
                   /\ \A j \in 0..(m - 1) : ~ IsNaN(phi[j + k * m])
                   /\ fsum(phi, k * m, k * m + m - 1, Zero) = One

\* 'x' of bwd for target j at step k of the block at 'offset': the sum over
\* i of alpha[i+k*m]*Q[i+j*m], on the alphas fwd left in pem.
BwdReach(j, k) ==
   fsum([i \in 0..(m - 1) |-> fmul(pem[offset + i + k * m], Q[i + j * m])],
        0, m - 1, Zero)

\* C20: after the turn of bwd at a step k where alpha[k, .] and
\* phi[k+1, .] have no NaN and no predecessor reaches some state j (the sum
\* over i of alpha[k,i]*Q[i,j] is 0), the reverse kernel R[j, .] of that
\* turn is zero and neither phi[k, .] nor T has a NaN.
C20_UnreachableTargetKernelIsZero ==
   \A k \in 0..(NObs - 1) :
      (/\ f_pc = "bwd" /\ k = f_k + 1 /\ k <= size[f_i] - 2
       /\ \A i \in 0..(m - 1) :
             /\ ~ IsNaN(pem[offset + i + k * m])
             /\ ~ IsNaN(phi[offset + i + (k + 1) * m])
       /\ \E j \in 0..(m - 1) : BwdReach(j, k) = Zero) =>
         /\ \A j \in 0..(m - 1) :
               BwdReach(j, k) = Zero =>
                  \A i \in 0..(m - 1) :
                     BwdKernel(m, Q, pem, offset, k)[j + i * m] = Zero
         /\ \A i \in 0..(m - 1) : ~ IsNaN(phi[offset + i + k * m])
         /\ \A z \in DOMAIN T : ~ IsNaN(T[z])

\* The forward prediction at row k from the alphas fwd left in pem: init at
\* the first row of a block, otherwise alpha_{k-1} times Q.
Prediction(k) ==
   IF k = SumSize(size, BlockOf(k)) THEN init
   ELSE [j \in 0..(m - 1) |->
           fsum([i \in 0..(m - 1) |->
                   fmul(pem[i + (k - 1) * m], Q[i + j * m])],
                0, m - 1, Zero)]

\* C7, as claimed: after the forward-backward pass, phi at every row with a
\* negative entry in Y equals the forward prediction at that row.  (Stated
\* for the rows where phi holds numbers: a NaN in phi is the matter of C2.)
C7_MissingRowPosteriorIsPrediction ==
   f_pc = "done" =>
      \A k \in 0..(NObs - 1) :
         (HasNegative(k) /\ \A j \in 0..(m - 1) : ~ IsNaN(phi[j + k * m]))
         => GetRow(phi, m, k) = Prediction(k)

\* C7, amended: after the forward-backward pass, at every row with a
\* negative entry in Y the alpha equals the forward prediction, and so does
\* phi when the row is the last of its block.
C7_MissingRowAlphaIsPrediction ==
   f_pc = "done" =>
      \A k \in 0..(NObs - 1) :
         HasNegative(k) =>
            /\ GetRow(pem, m, k) = Prediction(k)
            /\ k + 1 = SumSize(size, BlockOf(k) + 1)
               => GetRow(phi, m, k) = Prediction(k)

\* A missing row that ends its block, after an observed row whose emissions
\* tell the states apart.
C7_Witness ==
   /\ f_pc = "done"
   /\ \E k \in 1..(NObs - 1) :
         /\ HasNegative(k) /\ ~ HasNegative(k - 1)
         /\ BlockOf(k) = BlockOf(k - 1)
         /\ k + 1 = SumSize(size, BlockOf(k) + 1)
         /\ GetRow(phi, m, k) = Prediction(k)
         /\ Prediction(k) # init
         /\ \A j \in 0..(m - 1) : ~ IsNaN(phi[j + k * m])

\* C8: a step of fwd at an emission row with a NaN in any slot sets the
\* alpha to the prediction tmp, overwrites the row of prob with tmp and
\* leaves the running log-likelihood as it was.
C8_MissingStepContributesNothing ==
   [][(f_pc = "fwd" /\ f_k < size[f_i]
         /\ \E j \in 0..(m - 1) : IsNaN(pem[offset + j + f_k * m]))
      => LET tmp == IF f_k = 0 THEN init
                    ELSE [j \in 0..(m - 1) |->
                            fsum([i \in 0..(m - 1) |->
                                    fmul(f_a[i], Q[i + j * m])],
                                 0, m - 1, Zero)]
         IN  /\ f_a' = tmp
             /\ \A j \in 0..(m - 1) : pem'[offset + j + f_k * m] = tmp[j]
             /\ f_loglik' = f_loglik]_vars

\* tmp and the normaliser c of the step fwd is at, for a row without NaN:
\* the sum of tmp[j] * prob[j+k*m], or of tmp[j] * exp(prob[j+k*m] -
\* prob[w+k*m]) when the first slot is negative.
FbTmp == FwdPredict(m, Q, init, f_k, f_a)
FbNormaliser ==
   fsum([j \in 0..(m - 1) |->
           IF flt(FbRow[0], Zero)
           THEN fmul(FbTmp[j],
                     fexp(fsub(FbRow[j], FbRow[FwdArgmax(m, FbRow, 1, 0)])))
           ELSE fmul(FbTmp[j], FbRow[j])],
        0, m - 1, Zero)

\* C22: a step of fwd at a row without NaN, in linear or in log space,
\* whose normaliser c is not strictly positive sets the alpha to the
\* prediction tmp, overwrites the row of prob with tmp and leaves the
\* running log-likelihood as it was.
C22_CollapsedStepContributesNothing ==
   [][(/\ f_pc = "fwd" /\ f_k < size[f_i]
       /\ \A j \in 0..(m - 1) : ~ IsNaN(FbRow[j])
       /\ ~ fgt(FbNormaliser, Zero))
      => /\ f_a' = FbTmp
         /\ \A j \in 0..(m - 1) : pem'[offset + j + f_k * m] = FbTmp[j]
         /\ f_loglik' = f_loglik]_vars

\* fwd has just passed a row with a NaN in one slot and a number in
\* another, after steps that added to the log-likelihood.
C8_Witness ==
   /\ f_pc = "fwd" /\ f_k >= 2
   /\ f_a = f_tmp
   /\ LET row == GetRow(Emissions0, m, SumSize(size, f_i) + f_k - 1)
      IN  /\ \E j \in 0..(m - 1) : IsNaN(row[j])
          /\ \E j \in 0..(m - 1) : ~ IsNaN(row[j])
   /\ GetRow(pem, m, SumSize(size, f_i) + f_k - 1) = f_tmp
   /\ f_loglik # Zero

\* Every row of phi of block b is free of NaN and sums to 1.
PhiRowsSumToOne(b) ==
   \A k \in BlockRows(b) :
      /\ \A j \in 0..(m - 1) : ~ IsNaN(phi[j + k * m])
      /\ fsum(phi, k * m, k * m + m - 1, Zero) = One

\* The sum of phi[k, i] over the rows k of block b from its row 'from' to
\* its row 'to', counted within the block.
PhiMass(b, i, from, to) ==
   fsum([k \in 0..(NObs - 1) |-> phi[i + k * m]],
        SumSize(size, b) + from, SumSize(size, b) + to, Zero)

\* The sum of row i of trans, trans[i+j*m] over j.
RowOfCounts(trans, i) ==
   fsum([j \in 0..(m - 1) |-> trans[i + j * m]], 0, m - 1, Zero)

\* C28: when bwd returns on a block whose rows of phi sum to 1, for every
\* state i the sum over j of T[i+j*m] (the transitions i -> j, as in Q) is
\* the sum of phi[k, i] over the rows of the block but the last, and the
\* entries of T total size - 1; when block_fwdb returns and every row of
\* phi sums to 1, the entries of sumtrans total n - nblocks.
C28_CountsFollowPosteriors ==
   /\ (f_pc = "bwd" /\ f_k < 0 /\ PhiRowsSumToOne(f_i)) =>
         /\ \A i \in 0..(m - 1) :
               RowOfCounts(T, i) = PhiMass(f_i, i, 0, size[f_i] - 2)
         /\ fsum(T, 0, m * m - 1, Zero) = Int2D(size[f_i] - 1)
   /\ (f_pc = "done" /\ \A b \in 0..(nb - 1) : PhiRowsSumToOne(b)) =>
         fsum(sumtrans, 0, m * m - 1, Zero) = Int2D(NObs - nb)

\* bwd has returned on a block of two rows or more, the second block of
\* the series, whose rows of phi sum to 1 and where some state has another
\* posterior mass on the rows but the last than on the rows but the first.
C28_Witness ==
   /\ f_pc = "bwd" /\ f_k < 0 /\ f_i = 1 /\ size[f_i] >= 2
   /\ PhiRowsSumToOne(f_i)
   /\ \E i \in 0..(m - 1) :
         /\ PhiMass(f_i, i, 0, size[f_i] - 2) # PhiMass(f_i, i, 1, size[f_i] - 1)
         /\ RowOfCounts(T, i) = PhiMass(f_i, i, 0, size[f_i] - 2)

\* block_fwdb with nblocks = 1 on each block alone, given the emissions.
SoloRuns(prob) ==
   [b \in 0..(nb - 1) |->
      block_fwdb(m, 1, [i \in {0} |-> size[b]], Q, init,
                 [x \in 0..(m * size[b] - 1) |->
                    prob[m * SumSize(size, b) + x]],
                 Fill(m * size[b], NAN))]

\* The sums of loglik and of sumtrans over the runs of blocks 0 .. b-1.
RECURSIVE SoloSums(_, _)
SoloSums(runs, b) ==
   IF b = 0 THEN [loglik |-> Zero, sumtrans |-> Fill(m * m, Zero)]
   ELSE LET before == SoloSums(runs, b - 1)
        IN  [loglik |-> fadd(before.loglik, runs[b - 1].loglik),
             sumtrans |-> AddTrans(before.sumtrans, runs[b - 1].sumtrans)]

\* C9: block_fwdb on nb blocks leaves what the runs with nb = 1 on each
\* block leave: loglik and sumtrans are the sums over the runs, and the
\* alphas and phi of each block are those of its own run.
C9_BlocksAreSeparateRuns ==
   f_pc = "done" =>
      LET runs == SoloRuns(Emissions0)
          sums == SoloSums(runs, nb)
      IN  /\ loglik = sums.loglik
          /\ sumtrans = sums.sumtrans
          /\ \A b \in 0..(nb - 1) :
                /\ runs[b].prob = [x \in 0..(m * size[b] - 1) |->
                                     pem[m * SumSize(size, b) + x]]
                /\ runs[b].phi = [x \in 0..(m * size[b] - 1) |->
                                    phi[m * SumSize(size, b) + x]]

\* Two blocks or more, the first of two rows or more, no row missing, and
\* an initial distribution the alphas have moved away from.
C9_Witness ==
   /\ f_pc = "done" /\ nb >= 2 /\ size[0] >= 2
   /\ \A k \in 0..(NObs - 1) : ~ HasNegative(k)
   /\ \A x \in 0..(NObs * m - 1) : ~ IsNaN(phi[x])
   /\ GetRow(pem, m, size[0] - 1) # init
   /\ loglik # Zero

(***************************************************************************)
(* bw_zinm(): the Baum-Welch trainer.                                      *)
(***************************************************************************)
\* jahmm.h: the limits of the outer loop and of the Newton loop.
MAXITER == 500
JAHMM_MAXITER == 25
\* jahmm.h has 1e-6; on the range modelled, the smallest positive double.
TOLERANCE == Rat(1, DblMinInv)

\* pow(x, k) for an integer k.
RECURSIVE fpow(_, _)
fpow(x, k) ==
   IF k = 0 THEN One
   ELSE IF k > 0 THEN fmul(x, fpow(x, k - 1))
   ELSE fdiv(One, fpow(x, -k))

sq(x) == fmul(x, x)

\* Q[i+j*m] = trans[i+j*m] / sum, sum the sum of trans[i+j*m] over j.
update_trans(mm, QQ, trans) ==
   [x \in DOMAIN QQ |->
      LET i == x % mm
          sum == fsum([j \in 0..(mm - 1) |-> trans[i + j * mm]], 0, mm - 1,
                      Zero)
      IN  fdiv(trans[x], sum)]

\* 'B * pi*a*pow(p0,a-1) / (pi*pow(p0,a)+1-pi)'.
BwTerm2(aa, ppi, p0, B) ==
   fdiv(fmul(fmul(fmul(B, ppi), aa), fpow(p0, aa[2] - 1)),
        fsub(fadd(fmul(ppi, fpow(p0, aa[2])), One), ppi))

eval_bw_f(aa, ppi, p0, A, B, C, D, E) ==
   LET term1 == fdiv(fadd(D, fmul(aa, A)), p0)
       term2 == BwTerm2(aa, ppi, p0, B)
   IN  fsub(fadd(p0, fdiv(E, fadd(term1, term2))), fdiv(One, C))

eval_bw_dfdp0(aa, ppi, p0, A, B, C, D, E) ==
   LET term1 == fdiv(fadd(D, fmul(aa, A)), p0)
       term2 == BwTerm2(aa, ppi, p0, B)
       subterm3a == fmul(fmul(fmul(fmul(fsub(One, ppi), ppi), aa),
                              fsub(aa, One)),
                         fpow(p0, aa[2] - 2))
       subterm3b == fmul(fmul(sq(ppi), aa), fpow(p0, 2 * aa[2] - 2))
       term3 == fdiv(fmul(B, fsub(subterm3a, subterm3b)),
                     sq(fsub(fadd(fmul(ppi, fpow(p0, aa[2])), One), ppi)))
       term4 == fdiv(fadd(D, fmul(aa, A)), sq(p0))
   IN  fsub(One, fmul(fdiv(E, sq(fadd(term1, term2))), fsub(term3, term4)))

\* The sums A, B, D and ystar over the rows, for state i, and E.
BwSums(mm, rr, n, yy, ph, idx, iz, i) ==
   LET w(k) == ph[i + k * mm]
       other(k) == idx[k] # iz
       ystar == [j \in 0..(rr - 1) |->
                   IF j = 0 THEN Zero
                   ELSE fsum([k \in 0..(n - 1) |->
                                IF other(k)
                                THEN fmul(w(k), Int2D(yy[j + k * rr]))
                                ELSE Zero],
                             0, n - 1, Zero)]
   IN  [A |-> fsum([k \in 0..(n - 1) |-> IF other(k) THEN w(k) ELSE Zero],
                   0, n - 1, Zero),
        B |-> fsum([k \in 0..(n - 1) |-> IF other(k) THEN Zero ELSE w(k)],
                   0, n - 1, Zero),
        D |-> fsum([k \in 0..(n - 1) |->
                      IF other(k) THEN fmul(w(k), Int2D(yy[0 + k * rr]))
                      ELSE Zero],
                   0, n - 1, Zero),
        ystar |-> ystar,
        E |-> fsum(ystar, 1, rr - 1, Zero)]

\* 'while (eval_bw_f(...) < 0) p0 *= 2': p0 when the loop ends.
RECURSIVE BwDouble(_, _, _, _, _, _, _, _)
BwDouble(aa, ppi, p0, A, B, C, D, E) ==
   IF flt(eval_bw_f(aa, ppi, p0, A, B, C, D, E), Zero)
   THEN BwDouble(aa, ppi, fmul(p0, Int2D(2)), A, B, C, D, E)
   ELSE p0

\* 'while (eval_bw_f(...) > 0) p0 /= 2': p0 when the loop ends.
RECURSIVE BwHalve(_, _, _, _, _, _, _, _)
BwHalve(aa, ppi, p0, A, B, C, D, E) ==
   IF fgt(eval_bw_f(aa, ppi, p0, A, B, C, D, E), Zero)
   THEN BwHalve(aa, ppi, fdiv(p0, Int2D(2)), A, B, C, D, E)
   ELSE p0

\* A bracketing loop that never ends, from p0: the test holds at p0 and at
\* every p0 after it, down to a p0 that 'p0 /= 2' (or up to one that
\* 'p0 *= 2') leaves as it is, 0 or an infinity.
RECURSIVE BwLoopSpins(_, _, _, _, _, _, _, _, _)
BwLoopSpins(aa, ppi, p0, A, B, C, D, E, up) ==
   /\ IF up THEN flt(eval_bw_f(aa, ppi, p0, A, B, C, D, E), Zero)
            ELSE fgt(eval_bw_f(aa, ppi, p0, A, B, C, D, E), Zero)
   /\ LET nxt == IF up THEN fmul(p0, Int2D(2)) ELSE fdiv(p0, Int2D(2))
      IN  nxt = p0 \/ BwLoopSpins(aa, ppi, nxt, A, B, C, D, E, up)

\* The loop taken at lines 565-576 never ends.
BwBracketSpins(aa, ppi, A, B, C, D, E) ==
   IF flt(eval_bw_f(aa, ppi, Rat(1, 2), A, B, C, D, E), Zero)
   THEN BwLoopSpins(aa, ppi, One, A, B, C, D, E, TRUE)
   ELSE BwLoopSpins(aa, ppi, Rat(1, 4), A, B, C, D, E, FALSE)

\* The bounds p0_lo and p0_hi found from p0 = .5, and p0 itself.
BwBracket(aa, ppi, A, B, C, D, E) ==
   IF flt(eval_bw_f(aa, ppi, Rat(1, 2), A, B, C, D, E), Zero)
   THEN The({ [p0 |-> p0, lo |-> fdiv(p0, Int2D(2)), hi |-> p0] :
                 p0 \in {BwDouble(aa, ppi, One, A, B, C, D, E)} })
   ELSE The({ [p0 |-> p0, lo |-> p0, hi |-> fmul(p0, Int2D(2))] :
                 p0 \in {BwHalve(aa, ppi, Rat(1, 4), A, B, C, D, E)} })

\* 'if (p0_lo > 1.0 || p0_hi < 0.0)'.
BwBracketFailed(br) == fgt(br.lo, One) \/ flt(br.hi, Zero)

\* The Newton loop from turn j: p0 when it ends.  A turn that leaves
\* new_p0, p0_lo and p0_hi as it found them is repeated unchanged by every
\* later turn, so p0 is then what the last turn will leave.
RECURSIVE BwNewton(_, _, _, _, _, _, _, _, _, _, _, _)
BwNewton(aa, ppi, A, B, C, D, E, j, p0, new_p0, lo, hi) ==
   LET \* 'if (p0_hi - p0_lo < TOLERANCE) break' and the next turn.
       Settle(p1, lo1, hi1, new1) ==
          IF flt(fsub(hi1, lo1), TOLERANCE) THEN p1
          ELSE IF new1 = new_p0 /\ lo1 = lo /\ hi1 = hi THEN p1
          ELSE BwNewton(aa, ppi, A, B, C, D, E, j + 1, p1, new1, lo1, hi1)
       \* 'if (f > 0) p0_hi = p0; else p0_lo = p0' and 'new_p0 = p0 - f / df'.
       Narrow(p1, f) ==
          Settle(p1, IF fgt(f, Zero) THEN lo ELSE p1,
                 IF fgt(f, Zero) THEN p1 ELSE hi,
                 fsub(p1, fdiv(f, eval_bw_dfdp0(aa, ppi, p1, A, B, C, D, E))))
       \* 'f = eval_bw_f(...)' at the p0 of this turn.
       Turn(p1) == Narrow(p1, eval_bw_f(aa, ppi, p1, A, B, C, D, E))
   IN  IF j >= JAHMM_MAXITER THEN p0
       ELSE Turn(IF flt(new_p0, lo) \/ fgt(new_p0, hi)
                 THEN fdiv(fadd(lo, hi), Int2D(2))
                 ELSE new_p0)

\* The Newton loop of a state, from the bracket found for it.
BwRoot(aa, ppi, RR, sums, br) ==
   BwNewton(aa, ppi, sums.A, sums.B, fadd(One, RR), sums.D, sums.E, 0, br.p0,
            fdiv(fadd(br.lo, br.hi), Int2D(2)), br.lo, br.hi)

\* The row of newp for a state: p0, p0 * R and ystar[j] / normconst.
BwNewRow(rr, aa, ppi, RR, sums, p0) ==
   [j \in 0..rr |->
      IF j = 0 THEN p0
      ELSE IF j = 1 THEN fmul(p0, RR)
      ELSE fdiv(sums.ystar[j - 1],
                fdiv(fadd(fdiv(fadd(sums.D, fmul(aa, sums.A)), p0),
                          BwTerm2(aa, ppi, p0, sums.B)),
                     fadd(One, RR)))]

fabs(x) == IF IsNaN(x) THEN NAN ELSE IF Sign(x) < 0 THEN fneg(x) ELSE x

\* 'maxd = thisd > maxd ? thisd : maxd' over the entries i .. len-1.
RECURSIVE BwMaxd(_, _, _, _, _)
BwMaxd(np, pp, i, len, maxd) ==
   IF i >= len THEN maxd
   ELSE LET thisd == fabs(fsub(np[i], pp[i]))
        IN  BwMaxd(np, pp, i + 1, len, IF fgt(thisd, maxd) THEN thisd ELSE maxd)

(***************************************************************************)
(* SpecBW: one call of bw_zinm, a step of the outer loop at a time.        *)
(***************************************************************************)
\* The iterations of the outer loop the model follows.
MaxIter == 1

\* The models and observations: f is linear in p0 for each of them (one
\* track, or pi = 1), so that the root finder's values stay exact.
BwData ==
   /\ m = MaxM
   /\ \/ r = 1 /\ pi = Rat(1, 2)
      \/ r = 2 /\ pi = One
   /\ \E n \in 1..MaxObs :
         /\ \E part \in Partitions(n) : nb = Len(part) /\ size = SizeArray(part)
         /\ \E rows \in [1..n -> YRows(r)] : y = Flat(r, n, rows)
   /\ \E kind \in {"flat", "ident"} : Q = QMatrix(m, kind)
   /\ a = One
   /\ p = PMatrix(m, r, "ok")
   /\ l = Zero /\ jpem = "NULL" /\ jphi = "NULL"

BwInit ==
   /\ IdleEm /\ IdleFb /\ IdleVit
   /\ BwData
   /\ b_R = Zero /\ i0 = 0 /\ newp = <<>> /\ iter = 0 /\ b_i = 0
   /\ Q_iter = <<>> /\ p_iter = <<>>
   /\ b_pc = "enter"

BwFrame == UNCHANGED <<vitVars, m, r, nb, size, y, a, pi, e_fn, otype,
                       output_type, e_t, e_q, logp, logq, e_k, e_pc, T,
                       loglik, offset, f_i, f_k, f_a, f_tmp, f_loglik, f_pc>>

\* What malloc hands out for pem.  zinm_prob writes every row of it unless
\* it returns at "'p' negative", and only then is the content read: it is
\* anything, here NaN everywhere or doubles that pass for emissions.
BwMalloc(n, pp) ==
   IF ZinmNegative(m, r, pp)
   THEN {Fill(n, NAN), [x \in 0..(n - 1) |-> Rat(1, 1 + (x % 2))]}
   ELSE {Fill(n, NAN)}

\* bw_zinm up to the call of indexts; the buffers are not initialised.
BwEnter ==
   /\ b_pc = "enter"
   /\ b_R' = fdiv(p[1], p[0])
   /\ index' = Fill(NObs, -1)
   /\ pem' \in BwMalloc(NObs * m, p)
   /\ phi' = Fill(NObs * m, NAN)
   /\ sumtrans' = Fill(m * m, NAN)
   /\ newp' = Fill(m * (r + 1), NAN)
   /\ init' = Fill(m, fdiv(One, Int2D(m)))
   /\ b_pc' = "index"
   /\ UNCHANGED <<Q, p, l, jpem, jphi, i0, iter, b_i, Q_iter, p_iter>>
   /\ BwFrame

\* BwIndex with the rows keyed by their first column only.
BwIndexFirstColumn ==
   /\ b_pc = "index"
   /\ \E ix \in {indexts(NObs, 1, [k \in 0..(NObs - 1) |-> y[k * r]])} :
         index' = ix.index /\ i0' = ix.i0
   /\ iter' = 0
   /\ b_pc' = "estep"
   /\ UNCHANGED <<Q, p, l, jpem, jphi, pem, phi, sumtrans, init, b_R, newp,
                  b_i, Q_iter, p_iter>>
   /\ BwFrame

\* 'int i0 = indexts(n, r, y, index)'.
BwIndex ==
   /\ b_pc = "index"
   /\ \E ix \in {indexts(NObs, r, y)} :
         index' = ix.index /\ i0' = ix.i0
   /\ iter' = 0
   /\ b_pc' = "estep"
   /\ UNCHANGED <<Q, p, l, jpem, jphi, pem, phi, sumtrans, init, b_R, newp,
                  b_i, Q_iter, p_iter>>
   /\ BwFrame

\* The iterations the model follows: the first MaxIter, and one more when
\* the P of the iteration before has a negative entry (zinm_prob then
\* returns at once and the pass runs on what the buffer holds).
BwFollowed ==
   \/ iter < MaxIter
   \/ iter < MaxIter + 1 /\ ZinmNegative(m, r, p) /\ Q = Q_iter

\* zinm_prob and block_fwdb.  block_fwdb is called here for its value, with
\* eight arguments; its definition is void with a ninth: what the call
\* leaves in jahmm->l is the log-likelihood or anything else.
BwEStep ==
   /\ b_pc = "estep" /\ iter < MAXITER /\ BwFollowed
   /\ Q_iter' = Q /\ p_iter' = p
   /\ \E prob \in {zinm_prob(m, r, NObs, y, a, pi, p, index, "depends", 0,
                               pem)} :
         \E fb \in {block_fwdb(m, nb, size, Q, init, prob, phi)} :
            /\ pem' = fb.prob
            /\ phi' = fb.phi
            /\ sumtrans' = fb.sumtrans
            /\ l' \in {fb.loglik, NAN}
   /\ b_pc' = "trans"
   /\ UNCHANGED <<Q, p, jpem, jphi, index, init, b_R, i0, newp, iter, b_i>>
   /\ BwFrame

\* 'update_trans(m, Q, trans)'.
BwUpdateTrans ==
   /\ b_pc = "trans"
   /\ Q' = update_trans(m, Q, sumtrans)
   /\ b_i' = 0
   /\ b_pc' = "p"
   /\ UNCHANGED <<p, l, jpem, jphi, index, pem, phi, sumtrans, init, b_R, i0,
                  newp, iter, Q_iter, p_iter>>
   /\ BwFrame

\* The sums of the state the loop over i is at, and the bracket for them.
BwStateSums == BwSums(m, r, NObs, y, phi, index, i0, b_i)
BwStateBracket(sums) ==
   BwBracket(a, pi, sums.A, sums.B, fadd(One, b_R), sums.D, sums.E)
BwStateSpins(sums) ==
   BwBracketSpins(a, pi, sums.A, sums.B, fadd(One, b_R), sums.D, sums.E)

\* A turn of the loop over the states: the row of newp.
BwUpdateP ==
   /\ b_pc = "p" /\ b_i < m
   /\ \E sums \in {BwStateSums} :
         /\ ~ BwStateSpins(sums)
         /\ \E br \in {BwStateBracket(sums)} :
            /\ ~ BwBracketFailed(br)
            /\ \E p0 \in {BwRoot(a, pi, b_R, sums, br)} :
                  \E row \in {BwNewRow(r, a, pi, b_R, sums, p0)} :
                     newp' = [x \in DOMAIN newp |->
                                IF x \div (r + 1) = b_i
                                THEN row[x % (r + 1)]
                                ELSE newp[x]]
   /\ b_i' = b_i + 1
   /\ UNCHANGED <<Q, p, l, jpem, jphi, index, pem, phi, sumtrans, init, b_R,
                  i0, iter, b_pc, Q_iter, p_iter>>
   /\ BwFrame

\* "cannot complete Baum-Welch algorithm": free the buffers and return.
BwBracketFails ==
   /\ b_pc = "p" /\ b_i < m
   /\ \E sums \in {BwStateSums} :
         ~ BwStateSpins(sums) /\ BwBracketFailed(BwStateBracket(sums))
   /\ index' = <<>> /\ newp' = <<>> /\ pem' = <<>> /\ phi' = <<>>
   /\ init' = <<>> /\ sumtrans' = <<>>
   /\ b_pc' = "failed"
   /\ UNCHANGED <<Q, p, l, jpem, jphi, b_R, i0, iter, b_i, Q_iter, p_iter>>
   /\ BwFrame

\* A bracketing loop of the state that never ends: bw_zinm stays in it.
BwBracketLoops ==
   /\ b_pc = "p" /\ b_i < m
   /\ \E sums \in {BwStateSums} : BwStateSpins(sums) = TRUE
   /\ b_pc' = "spin"
   /\ UNCHANGED <<Q, p, l, jpem, jphi, index, pem, phi, sumtrans, init, b_R,
                  i0, newp, iter, b_i, Q_iter, p_iter>>
   /\ BwFrame

\* 'if (maxd < TOLERANCE) break'.
BwConverged ==
   /\ b_pc = "p" /\ b_i >= m
   /\ flt(BwMaxd(newp, p, 0, m * (r + 1), Zero), TOLERANCE)
   /\ b_pc' = "final"
   /\ UNCHANGED <<Q, p, l, jpem, jphi, index, pem, phi, sumtrans, init, b_R,
                  i0, newp, iter, b_i, Q_iter, p_iter>>
   /\ BwFrame

\* BwNextIter with the initial distribution re-estimated from the posterior
\* of the first row.
BwNextIterNewInit ==
   /\ b_pc = "p" /\ b_i >= m
   /\ ~ flt(BwMaxd(newp, p, 0, m * (r + 1), Zero), TOLERANCE)
   /\ p' = newp
   /\ init' = GetRow(phi, m, 0)
   /\ iter' = iter + 1
   /\ b_pc' = IF iter + 1 < MAXITER THEN "estep" ELSE "final"
   /\ UNCHANGED <<Q, l, jpem, jphi, index, pem, phi, sumtrans, b_R, i0,
                  newp, b_i, Q_iter, p_iter>>
   /\ BwFrame

\* 'memcpy(p, newp, ...)' and the next iteration, if there is one.
BwNextIter ==
   /\ b_pc = "p" /\ b_i >= m
   /\ ~ flt(BwMaxd(newp, p, 0, m * (r + 1), Zero), TOLERANCE)
   /\ p' = newp
   /\ iter' = iter + 1
   /\ b_pc' = IF iter + 1 < MAXITER THEN "estep" ELSE "final"
   /\ UNCHANGED <<Q, l, jpem, jphi, index, pem, phi, sumtrans, init, b_R, i0,
                  newp, b_i, Q_iter, p_iter>>
   /\ BwFrame

\* The final emissions in log space; phi and pem go to the caller.
BwFinish ==
   /\ b_pc = "final"
   /\ pem' = zinm_prob(m, r, NObs, y, a, pi, p, index, "log_space", 0, pem)
   /\ newp' = <<>> /\ init' = <<>> /\ sumtrans' = <<>> /\ index' = <<>>
   /\ jphi' = "phi" /\ jpem' = "pem"
   /\ b_pc' = "done"
   /\ UNCHANGED <<Q, p, l, phi, b_R, i0, iter, b_i, Q_iter, p_iter>>
   /\ BwFrame

BwNext ==
   \/ BwEnter
   \/ BwIndex
   \/ BwEStep
   \/ BwUpdateTrans
   \/ BwUpdateP
   \/ BwBracketFails
   \/ BwConverged
   \/ BwNextIter
   \/ BwFinish

SpecBW == BwInit /\ [][BwNext]_vars

\* The same call with an invalid parameter set: the models of BwData with a
\* negative entry in P (the last entry, or p1, of state 0).
BwDataInvalid ==
   /\ m = MaxM
   /\ \/ r = 1 /\ pi = Rat(1, 2)
      \/ r = 2 /\ pi = One
   /\ \E n \in 1..(MaxObs - 1) :
         /\ \E part \in Partitions(n) : nb = Len(part) /\ size = SizeArray(part)
         /\ \E rows \in [1..n -> YRows(r)] : y = Flat(r, n, rows)
   /\ \E kind \in {"flat", "ident"} : Q = QMatrix(m, kind)
   /\ a = One
   /\ \E kind \in {"neg", "ratio"} : p = PMatrix(m, r, kind)
   /\ l = Zero /\ jpem = "NULL" /\ jphi = "NULL"

BwInitInvalid ==
   /\ IdleEm /\ IdleFb /\ IdleVit
   /\ BwDataInvalid
   /\ b_R = Zero /\ i0 = 0 /\ newp = <<>> /\ iter = 0 /\ b_i = 0
   /\ Q_iter = <<>> /\ p_iter = <<>>
   /\ b_pc = "enter"

BwNextInvalid ==
   \/ BwNext
   \/ BwBracketLoops

SpecBWInvalid == BwInitInvalid /\ [][BwNextInvalid]_vars

(***************************************************************************)
(* Claims about the trainer.                                               *)
(***************************************************************************)
\* An iteration of the outer loop has run to its end.
IterationDone ==
   b_pc \in {"final", "done"} \/ (b_pc = "estep" /\ iter >= 1)

\* The sum of row i of Q, Q[i+j*m] over j, left to right.
QRowSum(i) == fsum([j \in 0..(m - 1) |-> Q[i + j * m]], 0, m - 1, Zero)

\* C3: after every iteration of bw_zinm each row of Q sums to 1 and no
\* entry of Q is NaN.  Stated for the observations without a missing value,
\* where no negative count enters the sums of the iteration.
C3_TransitionRowsSumToOne ==
   (IterationDone /\ \A k \in 0..(NObs - 1) : ~ HasNegative(k)) =>
      /\ \A x \in DOMAIN Q : ~ IsNaN(Q[x])
      /\ \A i \in 0..(m - 1) : QRowSum(i) = One

\* The sum of row i of the expected transition counts, trans[i+j*m] over j.
TransRowSum(i) ==
   fsum([j \in 0..(m - 1) |-> sumtrans[i + j * m]], 0, m - 1, Zero)

\* C21: after update_trans on counts without a NaN, a row i of Q whose
\* counts sum to zero holds the values it had before the update, without a
\* NaN, and every other row is Q[i,j] = T_sum[i,j] / sum_j T_sum[i,j].
C21_ZeroCountRowKeepsPreviousRow ==
   (b_pc = "p" /\ \A x \in DOMAIN sumtrans : ~ IsNaN(sumtrans[x])) =>
      \A i \in 0..(m - 1) :
         \A j \in 0..(m - 1) :
            IF TransRowSum(i) = Zero
            THEN Q[i + j * m] = Q_iter[i + j * m] /\ ~ IsNaN(Q[i + j * m])
            ELSE Q[i + j * m] = fdiv(sumtrans[i + j * m], TransRowSum(i))

C27_StatisticsAreNonNegative ==
   (/\ b_pc = "p" /\ b_i < m
    /\ \A x \in DOMAIN phi : fge(phi[x], Zero)) =>
      /\ fge(BwStateSums.D, Zero)
      /\ \A j \in 1..(r - 1) : fge(BwStateSums.ystar[j], Zero)
      /\ fge(BwStateSums.E, Zero)

\* The index is in use: between the call of indexts and the free of it.
IndexInUse == b_pc \in {"estep", "trans", "p", "final"}

FwdbHasRun == b_pc \in {"trans", "p", "failed", "final", "done"}

\* C11: when bw_zinm is called with a negative entry in P, no
\* forward-backward pass is run, Q and P keep their values and neither phi
\* nor pem is handed to the caller.  In iteration 0 'p' is the P of the call
\* and Q_iter, once set, the Q of the call.
C11_InvalidParameterIsFatal ==
   (iter = 0 /\ ZinmNegative(m, r, p)) =>
      /\ ~ FwdbHasRun
      /\ Q_iter # <<>> => (Q = Q_iter /\ p = p_iter)
      /\ jpem = "NULL" /\ jphi = "NULL"

\* C12: no step of bw_zinm, on the way to a normal or to an error return,
\* writes a, pi, the counts or the block sizes, and whenever a
\* forward-backward pass is about to start or has run in an iteration, the
\* initial distribution is the uniform vector set before the first one.
C12_TrainerFrame ==
   [][/\ a' = a /\ pi' = pi
      /\ y' = y /\ size' = size /\ nb' = nb
      /\ b_pc' \in {"estep", "trans", "p"} =>
            init' = Fill(m, fdiv(One, Int2D(m)))]_vars

\* A normal return after an iteration that changed Q, and another iteration
\* was due (P had moved by TOLERANCE or more).
C12_Witness ==
   /\ b_pc = "estep" /\ iter = 1 /\ Q # Q_iter /\ p # p_iter
   /\ \A x \in DOMAIN Q : ~ IsNaN(Q[x])

\* Row k of pem as zinm_prob writes it in log space with the P of the model.
LogEmissionRow(k) ==
   IF is_invalid(y, k, r) THEN Fill(m, NAN)
   ELSE ZinmLogRow(m, r, y, k, a, pi, ZinmLogp(m, r, p), 0)

\* phi of a forward-backward pass on the emissions of the P and with the Q
\* the last iteration started with.
LastPosteriors ==
   block_fwdb(m, nb, size, Q_iter, Fill(m, fdiv(One, Int2D(m))),
              zinm_prob(m, r, NObs, y, a, pi, p_iter,
                        indexts(NObs, r, y).index, "depends", 0,
                        Fill(NObs * m, NAN)),
              Fill(NObs * m, NAN)).phi

\* C13: when bw_zinm has returned normally, the pem handed to the caller
\* holds, row by row, the log-space emissions for the P of the model at
\* that time (NaN at rows with a missing value), and the phi handed to the
\* caller is that of the last forward-backward pass.
C13_ReturnedEmissionsAreLogSpace ==
   b_pc = "done" =>
      /\ jpem = "pem" /\ jphi = "phi"
      /\ \A k \in 0..(NObs - 1) : GetRow(pem, m, k) = LogEmissionRow(k)
      /\ ~ ZinmNegative(m, r, p_iter) => phi = LastPosteriors

\* C14: a call of bw_zinm does not stay in a loop for ever: the outer loop
\* is at an iteration below MAXITER whenever its body runs, and no
\* bracketing loop (doubling or halving of p0) goes on without end.  The
\* Newton loop is a 'for' over j < JAHMM_MAXITER whose body calls the two
\* evaluators only.
C14_EveryLoopEnds ==
   /\ b_pc # "spin"
   /\ b_pc \in {"trans", "p"} => iter < MAXITER

RECURSIVE VitScan(_, _, _, _, _, _)
VitScan(vm, lQ, om, j, i, best) ==
   IF i >= vm THEN best
   ELSE LET tmp == fadd(om[i], lQ[i + j * vm])
        IN  VitScan(vm, lQ, om, j, i + 1,
                    IF fgt(tmp, best[1]) THEN <<tmp, i>> ELSE best)

\* VitBest with the last of the equal maxima in place of the first.
VitBestLastMax(vm, lQ, om, j) ==
   LET val(i) == fadd(om[i], lQ[i + j * vm])
       last == CHOOSE i \in 0..(vm - 1) :
                  \A i2 \in 0..(vm - 1) :
                     /\ ~ fgt(val(i2), val(i))
                     /\ i2 > i => flt(val(i2), val(i))
   IN  <<val(last), last>>

VitBest(vm, lQ, om, j) ==
   VitScan(vm, lQ, om, j, 1, <<fadd(om[0], lQ[0 + j * vm]), 0>>)

\* 'for (j = 1 ; j < m ; j++) if (newmax[j] > newmax[0]) final_state = j'.
RECURSIVE VitFinalState(_, _, _, _)
VitFinalState(vm, nm, j, final_state) ==
   IF j >= vm THEN final_state
   ELSE VitFinalState(vm, nm, j + 1,
                      IF fgt(nm[j], nm[0]) THEN j ELSE final_state)

\* The inputs: emission rows with a best, a second and the other states,
\* and three transition matrices.
VitRow(vm, peak, second) ==
   [j \in 0..(vm - 1) |-> IF j = peak THEN Zero
                         ELSE IF j = second THEN Ln(1, 2) ELSE Ln(1, 4)]

VitRows(vm) ==
   {VitRow(vm, peak, second) : peak \in 0..(vm - 1), second \in 0..(vm - 1)}

VitLogQ(vm, kind) ==
   [x \in 0..(vm * vm - 1) |->
      LET i == x % vm
          j == x \div vm
      IN  IF vm = 1 THEN Zero
          ELSE IF kind = "flat" THEN Ln(1, vm)
          ELSE IF kind = "sticky"
               THEN (IF i = j THEN Ln(1, 2) ELSE Ln(1, 2 * (vm - 1)))
          ELSE (IF j = (i + 1) % vm THEN Ln(1, 2) ELSE Ln(1, 2 * (vm - 1)))]

VitLogI(vm, kind) ==
   [j \in 0..(vm - 1) |->
      IF kind = "flat" THEN Ln(1, vm)
      ELSE IF j = 0 THEN Ln(1, 2) ELSE Ln(1, 2 * vm)]

VitInit ==
   /\ IdleData /\ IdleEm /\ IdleFb /\ IdleBw
   /\ v_m \in 1..MaxStates
   /\ v_n \in 1..MaxLen
   /\ \E kind \in {"flat", "sticky", "shift"} : log_Q = VitLogQ(v_m, kind)
   /\ \E kind \in {"flat", "first"} : log_i = VitLogI(v_m, kind)
   /\ \E rs \in [1..v_n -> VitRows(v_m)] : log_p = Flat(v_m, v_n, rs)
   /\ oldmax = Fill(v_m, NAN)
   /\ newmax = Fill(v_m, NAN)
   /\ argmax = Fill(v_m * v_n, -1)
   /\ path = Fill(v_n, -1)
   /\ v_k = 0
   /\ v_pc = "first"
   /\ arglog = 0 /\ v_i = 0 /\ v_offset = 0 /\ v_ret = 0

\* Initial step: newmax[j] = log_i[j] + log_p[j+0*m].
VitFirst ==
   /\ v_pc = "first"
   /\ newmax' = [j \in 0..(v_m - 1) |-> fadd(log_i[j], log_p[j + 0 * v_m])]
   /\ v_k' = 1
   /\ v_pc' = "recursion"
   /\ UNCHANGED <<dataVars, emVars, fbVars, bwVars, bvVars>>
   /\ UNCHANGED <<v_m, v_n, log_Q, log_i, log_p, oldmax, argmax, path>>

\* One turn of 'for (k = 1 ; k < n ; k++)': swap, then the recursion.
VitRecursion ==
   /\ v_pc = "recursion"
   /\ v_k < v_n
   /\ oldmax' = newmax
   /\ newmax' = [j \in 0..(v_m - 1) |->
                   fadd(VitBest(v_m, log_Q, newmax, j)[1],
                        log_p[j + v_k * v_m])]
   /\ argmax' = [x \in 0..(v_m * v_n - 1) |->
                   IF x \div v_m = v_k
                   THEN VitBest(v_m, log_Q, newmax, x % v_m)[2]
                   ELSE argmax[x]]
   /\ v_k' = v_k + 1
   /\ UNCHANGED <<dataVars, emVars, fbVars, bwVars, bvVars>>
   /\ UNCHANGED <<v_m, v_n, log_Q, log_i, log_p, path, v_pc>>

\* The loop is over: get the final state.
VitFinal ==
   /\ v_pc = "recursion"
   /\ v_k >= v_n
   /\ path' = [path EXCEPT ![v_n - 1] = VitFinalState(v_m, newmax, 1, 0)]
   /\ v_k' = v_n - 2
   /\ v_pc' = "trace"
   /\ UNCHANGED <<dataVars, emVars, fbVars, bwVars, bvVars>>
   /\ UNCHANGED <<v_m, v_n, log_Q, log_i, log_p, oldmax, newmax, argmax>>

\* One turn of 'for (k = n-2 ; k >= 0 ; k--)'.
VitTrace ==
   /\ v_pc = "trace"
   /\ v_k >= 0
   /\ path' = [path EXCEPT ![v_k] = argmax[path[v_k + 1] + (v_k + 1) * v_m]]
   /\ v_k' = v_k - 1
   /\ UNCHANGED <<dataVars, emVars, fbVars, bwVars, bvVars>>
   /\ UNCHANGED <<v_m, v_n, log_Q, log_i, log_p, oldmax, newmax, argmax, v_pc>>

VitReturn ==
   /\ v_pc = "trace"
   /\ v_k < 0
   /\ v_pc' = "done"
   /\ UNCHANGED <<dataVars, emVars, fbVars, bwVars, bvVars>>
   /\ UNCHANGED <<v_m, v_n, log_Q, log_i, log_p, oldmax, newmax, argmax, path,
                  v_k>>

VitNext == VitFirst \/ VitRecursion \/ VitFinal \/ VitTrace \/ VitReturn

SpecVit == VitInit /\ [][VitNext]_vars

(***************************************************************************)
(* block_viterbi(): the decoder of a time series in blocks.                *)
(***************************************************************************)
\* The recursion of viterbi from step k on the block at lp + off: newmax
\* and argmax when it ends.
RECURSIVE VitForward(_, _, _, _, _, _, _, _)
VitForward(vm, vn, lQ, lp, off, k, nm, am) ==
   IF k >= vn THEN [newmax |-> nm, argmax |-> am]
   ELSE VitForward(vm, vn, lQ, lp, off, k + 1,
           Stored([j \in 0..(vm - 1) |->
                     fadd(VitBest(vm, lQ, nm, j)[1], lp[off + j + k * vm])]),
           Stored([x \in 0..(vm * vn - 1) |->
                     IF x \div vm = k THEN VitBest(vm, lQ, nm, x % vm)[2]
                     ELSE am[x]]))

\* 'for (k = n-2 ; k >= 0 ; k--) path[k] = argmax[path[k+1]+(k+1)*m]'.
RECURSIVE VitBack(_, _, _, _)
VitBack(vm, am, k, pth) ==
   IF k < 0 THEN pth
   ELSE VitBack(vm, am, k - 1,
                [pth EXCEPT ![k] = am[pth[k + 1] + (k + 1) * vm]])

\* viterbi(m, n, log_Q, log_i, log_p + off, path): the n states written.
viterbi(vm, vn, lQ, li, lp, off) ==
   The({ VitBack(vm, fw.argmax, vn - 2,
                 [k \in 0..(vn - 1) |->
                    IF k = vn - 1 THEN VitFinalState(vm, fw.newmax, 1, 0)
                    ELSE -1]) :
            fw \in {VitForward(vm, vn, lQ, lp, off, 1,
                               [j \in 0..(vm - 1) |->
                                  fadd(li[j], lp[off + j])],
                               Fill(vm * vn, -1))} })

\* is_undefined(slice, m): a NaN, or every value -inf.
is_undefined(slice, mm) ==
   \/ \E i \in 0..(mm - 1) : IsNaN(slice[i])
   \/ \A i \in 0..(mm - 1) : slice[i] = NINF

\* BvAdvance with 'offset += size[i]', the step of the offset in path.
BvAdvanceRows(mm, sz, i) == sz[i]

\* 'offset += m * size[i]': the step of the offset in log_p after block i.
BvAdvance(mm, sz, i) == mm * sz[i]

\* 'for (k = 0 ; k < size[i] ; k++) if (is_undefined(log_p + offset + k*m,
\* m)) memset(log_p + offset + k*m, 0, ...)' from row k of block i on, then
\* the blocks after it.
RECURSIVE BvReplace(_, _, _, _, _, _, _)
BvReplace(mm, nblocks, sz, lp, i, k, off) ==
   IF i >= nblocks THEN lp
   ELSE IF k >= sz[i]
   THEN BvReplace(mm, nblocks, sz, lp, i + 1, 0, off + BvAdvance(mm, sz, i))
   ELSE BvReplace(mm, nblocks, sz,
           Stored(IF is_undefined([j \in 0..(mm - 1) |-> lp[off + k * mm + j]],
                                  mm)
                  THEN [x \in DOMAIN lp |->
                          IF x >= off + k * mm /\ x < off + k * mm + mm
                          THEN Zero ELSE lp[x]]
                  ELSE lp),
           i, k + 1, off)

\* BvInvalid with the test of log_Q only.
BvInvalidQOnly(lQ, li) == \E x \in DOMAIN lQ : IsNaN(lQ[x])

\* 'if (log_Q[i] != log_Q[i])' for some i, or 'if (log_i[i] != log_i[i])'.
BvInvalid(lQ, li) ==
   \/ \E x \in DOMAIN lQ : IsNaN(lQ[x])
   \/ \E x \in DOMAIN li : IsNaN(li[x])

\* The arguments in linear space; with arglog the caller passes their logs.
BvQ(mm, kind) ==
   [x \in 0..(mm * mm - 1) |->
      IF kind = "neg" /\ x = 1 THEN Rat(-1, 2)
      ELSE IF kind = "nan" /\ x = 1 THEN NAN
      ELSE QMatrix(mm, IF kind = "ident" THEN "ident" ELSE "flat")[x]]

BvI(mm, kind) ==
   [j \in 0..(mm - 1) |->
      IF kind = "neg" /\ j = 0 THEN Rat(-1, 2)
      ELSE InitVector(mm, IF kind = "first" THEN "first" ELSE "flat")[j]]

\* Emission rows: two with values, one of zeros and one with a NaN.
BvRows(mm) ==
   { [j \in 0..(mm - 1) |-> IF j = 0 THEN One ELSE Rat(1, 2)],
     [j \in 0..(mm - 1) |-> IF j = 0 THEN Rat(1, 4) ELSE Rat(1, 2)],
     [j \in 0..(mm - 1) |-> Zero],
     [j \in 0..(mm - 1) |-> IF j = 0 THEN NAN ELSE Rat(1, 2)] }

\* An array as the caller passes it, and as block_viterbi copies it.
BvArg(arr, lg) == IF lg = 1 THEN [x \in DOMAIN arr |-> flog(arr[x])] ELSE arr
BvCopy(arr, lg) == IF lg = 1 THEN arr ELSE [x \in DOMAIN arr |-> flog(arr[x])]

BvInit ==
   /\ IdleBw
   /\ r = 0 /\ y = <<>> /\ a = Zero /\ pi = Zero /\ p = <<>> /\ l = Zero
   /\ jpem = "NULL" /\ jphi = "NULL"
   /\ e_fn = "none" /\ otype = 0 /\ output_type = "none" /\ e_t = Zero
   /\ e_q = <<>> /\ index = <<>> /\ logp = <<>> /\ logq = <<>>
   /\ e_k = 0 /\ e_pc = "idle"
   /\ phi = <<>> /\ sumtrans = <<>> /\ T = <<>>
   /\ loglik = Zero /\ offset = 0 /\ f_i = 0 /\ f_k = 0 /\ f_a = <<>>
   /\ f_tmp = <<>> /\ f_loglik = Zero /\ f_pc = "idle"
   /\ m = MaxM
   /\ arglog \in {0, 1}
   /\ \E n \in 1..MaxObs :
         /\ \E part \in Partitions(n) : nb = Len(part) /\ size = SizeArray(part)
         /\ \E rows \in [1..n -> BvRows(m)] : pem = BvArg(Flat(m, n, rows), arglog)
         /\ path = Fill(n, -1)
         /\ v_n = n
   /\ \E kind \in {"flat", "ident", "neg", "nan"} : Q = BvArg(BvQ(m, kind), arglog)
   /\ \E kind \in {"flat", "first", "neg"} : init = BvArg(BvI(m, kind), arglog)
   /\ v_m = m
   /\ log_Q = <<>> /\ log_i = <<>> /\ log_p = <<>>
   /\ oldmax = <<>> /\ newmax = <<>> /\ argmax = <<>>
   /\ v_k = 0 /\ v_i = 0 /\ v_offset = 0 /\ v_ret = 0
   /\ v_pc = "enter"

BvFrame ==
   UNCHANGED <<dataVars, emVars, fbVars, bwVars, v_m, v_n, oldmax, newmax,
               argmax, v_k, arglog>>

\* The copies log_p, log_Q and log_i, taken as they are or through log().
BvEnter ==
   /\ v_pc = "enter"
   /\ log_p' = BvCopy(pem, arglog)
   /\ log_Q' = BvCopy(Q, arglog)
   /\ log_i' = BvCopy(init, arglog)
   /\ v_pc' = "check"
   /\ UNCHANGED <<path, v_i, v_offset, v_ret>>
   /\ BvFrame

\* "invalid 'Q' parameter" or "invalid 'init' parameter": free(log_p) and
\* return -1.
BvReject ==
   /\ v_pc = "check"
   /\ BvInvalid(log_Q, log_i)
   /\ log_p' = <<>>
   /\ v_ret' = -1
   /\ v_pc' = "returned"
   /\ UNCHANGED <<log_Q, log_i, path, v_i, v_offset>>
   /\ BvFrame

\* The rows of log_p that are undefined are set to 0.
BvUndefined ==
   /\ v_pc = "check"
   /\ ~ BvInvalid(log_Q, log_i)
   /\ log_p' = BvReplace(m, nb, size, log_p, 0, 0, 0)
   /\ v_i' = 0
   /\ v_offset' = 0
   /\ v_pc' = "blocks"
   /\ UNCHANGED <<log_Q, log_i, path, v_ret>>
   /\ BvFrame

\* 'viterbi(m, size[i], log_Q, log_i, log_p+m*offset, path+offset)'.
BvBlock ==
   /\ v_pc = "blocks" /\ v_i < nb
   /\ \E pth \in {viterbi(m, size[v_i], log_Q, log_i, log_p, m * v_offset)} :
         path' = [k \in DOMAIN path |->
                    IF k >= v_offset /\ k < v_offset + size[v_i]
                    THEN pth[k - v_offset] ELSE path[k]]
   /\ v_offset' = v_offset + size[v_i]
   /\ v_i' = v_i + 1
   /\ UNCHANGED <<log_Q, log_i, log_p, v_ret, v_pc>>
   /\ BvFrame

\* 'free(log_p); return 0'.
BvReturn ==
   /\ v_pc = "blocks" /\ v_i >= nb
   /\ log_p' = <<>>
   /\ v_ret' = 0
   /\ v_pc' = "returned"
   /\ UNCHANGED <<log_Q, log_i, path, v_i, v_offset>>
   /\ BvFrame

BvNext == BvEnter \/ BvReject \/ BvUndefined \/ BvBlock \/ BvReturn

SpecBV == BvInit /\ [][BvNext]_vars

(***************************************************************************)
(* The claims about viterbi() and block_viterbi().                         *)
(***************************************************************************)
\* C17: when block_viterbi has returned and an entry of log Q or of log
\* init, taken from the arguments as block_viterbi converts them (log() of
\* a negative entry included), is NaN, the value returned is not 0 and no
\* element of path has been written.
C17_InvalidArgumentsAreRejected ==
   (/\ v_pc = "returned"
    /\ \/ \E x \in DOMAIN Q : IsNaN(BvCopy(Q, arglog)[x])
       \/ \E x \in DOMAIN init : IsNaN(BvCopy(init, arglog)[x])) =>
      /\ v_ret # 0
      /\ path = Fill(NObs, -1)

\* Row k of the emissions as block_viterbi converts them.
BvGivenRow(k) == GetRow(BvCopy(pem, arglog), m, k)

\* C23: block_viterbi never changes the caller's prob, Q and init, and
\* when it has replaced the undefined emissions, before any block is
\* decoded, every row of its copy that had a NaN or m values -inf is m
\* zeros and every other row is as given.
C23_UndefinedRowsBecomeZeros ==
   [][/\ pem' = pem /\ Q' = Q /\ init' = init
      /\ (v_pc = "check" /\ v_pc' = "blocks") =>
            /\ v_i' = 0 /\ path' = Fill(NObs, -1)
            /\ \A k \in 0..(NObs - 1) :
                  GetRow(log_p', m, k) =
                     IF is_undefined(BvGivenRow(k), m) THEN Fill(m, Zero)
                     ELSE BvGivenRow(k)]_vars

\* The emissions are replaced in a series of two blocks whose second block
\* has a row of m values -inf, or a row with a NaN and a number, after a
\* row that is defined and not of zeros.
C23_Witness ==
   /\ v_pc = "blocks" /\ v_i = 0 /\ nb = 2
   /\ \E k \in size[0]..(NObs - 1) :
         /\ \/ \A j \in 0..(m - 1) : BvGivenRow(k)[j] = NINF
            \/ /\ \E j \in 0..(m - 1) : IsNaN(BvGivenRow(k)[j])
               /\ \E j \in 0..(m - 1) : ~ IsNaN(BvGivenRow(k)[j])
         /\ GetRow(log_p, m, k) = Fill(m, Zero)
         /\ \E k2 \in 0..(k - 1) :
               /\ ~ is_undefined(BvGivenRow(k2), m)
               /\ GetRow(log_p, m, k2) = BvGivenRow(k2)
               /\ GetRow(log_p, m, k2) # Fill(m, Zero)

\* A return with a negative entry of init passed in linear space, Q valid.
C17_Witness ==
   /\ v_pc = "returned" /\ arglog = 0 /\ v_ret = -1
   /\ \E x \in DOMAIN init : flt(init[x], Zero)
   /\ \A x \in DOMAIN Q : ~ IsNaN(Q[x]) /\ ~ flt(Q[x], Zero)

\* The score of a state sequence s (a function on 0..n-1).
RECURSIVE VitScoreFrom(_, _, _)
VitScoreFrom(s, k, acc) ==
   IF k >= v_n THEN acc
   ELSE VitScoreFrom(s, k + 1,
           fadd(fadd(acc, log_Q[s[k - 1] + s[k] * v_m]), log_p[s[k] + k * v_m]))

VitScore(s) == VitScoreFrom(s, 1, fadd(log_i[s[0]], log_p[s[0] + 0 * v_m]))

VitPaths == [0..(v_n - 1) -> 0..(v_m - 1)]

\* C1: when viterbi() has returned, no state sequence of the block scores
\* strictly higher than the path it wrote.
C1_ViterbiPathIsOptimal ==
   v_pc = "done" => \A s \in VitPaths : ~ fgt(VitScore(s), VitScore(path))

\* The step of the recursion that was completed last, 0 when there is none.
VitLastStep == IF v_pc = "recursion" THEN v_k - 1 ELSE v_n - 1

\* oldmax_i + log_Q[i, j], what the scan of target j compares.
VitReach(i, j) == fadd(oldmax[i], log_Q[i + j * v_m])

\* C18: once the final state is written, path[n-1] is a state j of maximal
\* newmax_j and every state below it has a strictly smaller newmax; when
\* viterbi() has returned, each earlier path[k] is the backpointer
\* argmax[k+1, path[k+1]].
C18_FinalStateIsFirstArgmax ==
   v_pc \in {"trace", "done"} =>
      /\ \A j \in 0..(v_m - 1) :
            /\ ~ fgt(newmax[j], newmax[path[v_n - 1]])
            /\ j < path[v_n - 1] => flt(newmax[j], newmax[path[v_n - 1]])
      /\ v_pc = "done" =>
            \A k \in 0..(v_n - 2) :
               path[k] = argmax[path[k + 1] + (k + 1) * v_m]

\* C19: after a step k >= 1 of the recursion, for every state j the
\* backpointer argmax[k, j] is a state i of maximal oldmax_i + log_Q[i, j],
\* every state below it reaches strictly less, and newmax_j is that maximum
\* plus log_p[k, j].
C19_BackpointerIsFirstArgmax ==
   (v_pc # "first" /\ VitLastStep >= 1) =>
      \A j \in 0..(v_m - 1) :
         \E best \in {argmax[j + VitLastStep * v_m]} :
            /\ best \in 0..(v_m - 1)
            /\ \A i \in 0..(v_m - 1) :
                  /\ ~ fgt(VitReach(i, j), VitReach(best, j))
                  /\ i < best => flt(VitReach(i, j), VitReach(best, j))
            /\ newmax[j] = fadd(VitReach(best, j), log_p[j + VitLastStep * v_m])

\* A step was completed in which two predecessors reach some state j
\* equally well and no other does better.
C19_Witness ==
   /\ v_pc = "recursion" /\ v_k >= 2
   /\ \E j \in 0..(v_m - 1) :
         \E i1 \in 0..(v_m - 1) :
            \E i2 \in (i1 + 1)..(v_m - 1) :
               /\ VitReach(i1, j) = VitReach(i2, j)
               /\ \A i \in 0..(v_m - 1) : ~ fgt(VitReach(i, j), VitReach(i1, j))
               /\ argmax[j + (v_k - 1) * v_m] = i1

====
